---- MODULE Spec2Model ----
(***************************************************************************)
(* Verification model of five fragments of the repository:                 *)
(*   - the guided-onboarding GET /api/guided_onboarding/state contract     *)
(*     (x-pack/test/api_integration/apis/guided_onboarding/get_state.ts),  *)
(*   - the Memory lens visualization (infra/.../lens/hosts/memory.ts),     *)
(*   - the Zeek connection-state lookup (zeek_signature.tsx),              *)
(*   - the FilterBarService page object (second half of                    *)
(*     filter_badge_expression.tsx),                                       *)
(*   - the Settings wrapper over browser storage (second half of           *)
(*     memory.ts).                                                         *)
(* Each fragment has its own specification over the shared variables; the  *)
(* variables of the other fragments stay at their initial values.          *)
(***************************************************************************)
EXTENDS Integers, Sequences, FiniteSets, TLC

VARIABLES
    \* ---- guided onboarding ----
    savedObjects,   \* the saved-object store: a set of [type, id, attributes]
    response,       \* the last HTTP response of GET /api/guided_onboarding/state
    request,        \* the query of the request that produced `response`
    creates,        \* history: guideId -> the last two creates for it since the last clean, latest last
    cleaned,        \* history: the last clean removed at least one guide
    lastOp,         \* history: the last operation run against the server
    \* ---- Memory visualization ----
    memory,         \* the constructed Memory object: its dataView and options
    memCall,        \* the last Memory method called and its outcome
    memResults,     \* method -> the outcome of its last call on this Memory object
    \* ---- Zeek connection state ----
    zeekState,      \* zeek.connection.state[0] of the rendered event
    zeekPc,         \* position inside the ZeekSignature render
    stateLink,      \* result of extractStateLink(state)
    stateValue,     \* result of extractStateValue(state)
    \* ---- FilterBarService ----
    fbCall,         \* the public method in flight and its arguments
    fbPc,           \* position inside that method
    fbStack,        \* createFilter's call stack
    fbLocal,        \* local variables of the method in flight
    fbLog,          \* browser actions performed by the current attempt / method
    fbAttempt,      \* number of the current attempt of a retried block
    fbRet,          \* outcome of the last method
    page,           \* the part of the browser page the service observes
    \* ---- Settings ----
    storage,        \* the browser storage behind Settings: key -> stored value or Absent
    settingsCall,   \* the last Settings method called, its argument and its result
    lastSet         \* history: key -> the value of the latest set of that key, or Absent

guideVars  == <<savedObjects, response, request, creates, cleaned, lastOp>>
memoryVars == <<memory, memCall, memResults>>
zeekVars   == <<zeekState, zeekPc, stateLink, stateValue>>
filterVars == <<fbCall, fbPc, fbStack, fbLocal, fbLog, fbAttempt, fbRet, page>>
settingsVars == <<storage, settingsCall, lastSet>>
vars == <<savedObjects, response, request, creates, cleaned, lastOp,
          memory, memCall, memResults,
          zeekState, zeekPc, stateLink, stateValue,
          fbCall, fbPc, fbStack, fbLocal, fbLog, fbAttempt, fbRet, page,
          storage, settingsCall, lastSet>>

\* JavaScript's undefined and null, as values comparable with every record below.
Undefined == [js |-> "undefined"]
Null == [js |-> "null"]

(***************************************************************************)
(* Guided onboarding: the saved-object store driven by the integration     *)
(* test, and the GET endpoint it calls.                                    *)
(***************************************************************************)

guidedSetupSavedObjectsType == "guided-onboarding-guide-state"

\* Number of distinct guide ids the test creates guides for.
MaxGuides == 2

\* The guide ids of the test fixtures (appSearch, siem) and further ones.
AllGuideIds == <<"appSearch", "siem", "kubernetes", "observability">>

GuideIds == {AllGuideIds[i] : i \in 1..MaxGuides}

\* GuideState: a record keyed by guideId with an isActive flag.
GuideState == [guideId : GuideIds, isActive : BOOLEAN]

NoResponse == [status |-> 0, body |-> [state |-> <<>>]]
NoRequest == [active |-> "none"]

\* CreateArgs without overwrite: a second create of a guide id conflicts
CreateArgs_noOverwrite(guide) ==
    [type |-> guidedSetupSavedObjectsType, id |-> guide.guideId,
     overwrite |-> FALSE, attributes |-> guide]

\* CreateArgs with the saved-object type as id instead of the guide id
CreateArgs_typeAsId(guide) ==
    [type |-> guidedSetupSavedObjectsType, id |-> guidedSetupSavedObjectsType,
     overwrite |-> TRUE, attributes |-> guide]

\* kibanaServer.savedObjects.create({type, id: guide.guideId, overwrite: true, attributes: guide})
\* the arguments of the call
CreateArgs(guide) ==
    [type |-> guidedSetupSavedObjectsType, id |-> guide.guideId,
     overwrite |-> TRUE, attributes |-> guide]

\* the effect of savedObjects.create on the store: with overwrite the object of
\* the same type and id is replaced, without it a conflict leaves the store alone
SavedObjectsCreate(store, args) ==
    LET same == {o \in store : o.type = args.type /\ o.id = args.id}
        obj == [type |-> args.type, id |-> args.id, attributes |-> args.attributes]
    IN IF same = {} THEN store \cup {obj}
       ELSE IF args.overwrite THEN (store \ same) \cup {obj}
       ELSE store

\* kibanaServer.savedObjects.clean({types}): every object of the types is removed
SavedObjectsClean(store, types) == {o \in store : o.type \notin types}

\* one iteration of createGuides' loop (also the single create of the third test)
CreateGuide(guide) ==
    /\ savedObjects' = SavedObjectsCreate(savedObjects, CreateArgs(guide))
    /\ creates' = [creates EXCEPT ![guide.guideId] =
                        IF @ = <<>> THEN <<guide>> ELSE <<@[Len(@)], guide>>]
    /\ cleaned' = FALSE
    /\ lastOp' = "create"
    /\ UNCHANGED <<response, request, memoryVars, zeekVars, filterVars, settingsVars>>

\* CleanTypes naming another saved-object type
CleanTypes_otherType == {"config"}

\* { types: [guidedSetupSavedObjectsType] }
CleanTypes == {guidedSetupSavedObjectsType}

\* afterEach
AfterEach ==
    /\ savedObjects' = SavedObjectsClean(savedObjects, CleanTypes)
    /\ creates' = [g \in GuideIds |-> <<>>]
    /\ cleaned' = (\E o \in savedObjects : o.type = guidedSetupSavedObjectsType)
    /\ lastOp' = "clean"
    /\ UNCHANGED <<response, request, memoryVars, zeekVars, filterVars, settingsVars>>

\* all orderings of a finite set as sequences without repetition
Orderings(S) ==
    {f \in [1..Cardinality(S) -> S] : \A i, j \in 1..Cardinality(S) : f[i] = f[j] => i = j}

\* The guides the endpoint selects: all stored guides of the type without the
\* query parameter, the active ones with active=true.
SelectGuides(store, query) ==
    LET guides == {o \in store : o.type = guidedSetupSavedObjectsType}
    IN IF query.active = "true" THEN {o \in guides : o.attributes.isActive}
       ELSE guides

\* GET /api/guided_onboarding/state[?active=true]: 200 and { state: GuideState[] },
\* one entry per selected saved object, its attributes; the order of the array
\* is the store's and is not fixed here.
GetState(query) ==
    /\ \E order \in Orderings(SelectGuides(savedObjects, query)) :
          response' = [status |-> 200,
                       body |-> [state |-> [i \in 1..Len(order) |-> order[i].attributes]]]
    /\ request' = query
    /\ lastOp' = "get"
    /\ UNCHANGED <<savedObjects, creates, cleaned, memoryVars, zeekVars, filterVars, settingsVars>>

\* an object of another type that every store holds and clean leaves alone
ConfigObject ==
    [type |-> "config", id |-> "8.8.0", attributes |-> [guideId |-> "8.8.0", isActive |-> TRUE]]

GuideInit ==
    /\ savedObjects = {ConfigObject}
    /\ response = NoResponse
    /\ request = NoRequest
    /\ creates = [g \in GuideIds |-> <<>>]
    /\ cleaned = FALSE
    /\ lastOp = "none"

GuideNext ==
    \/ \E guide \in GuideState : CreateGuide(guide)
    \/ AfterEach
    \/ \E query \in {[active |-> "none"], [active |-> "true"]} : GetState(query)

(***************************************************************************)
(* JavaScript values whose dynamic type matters are boxed: a string is      *)
(* Str(s), a function or object reached through a prototype is Fn / Obj.   *)
(***************************************************************************)
Str(s) == [js |-> "string", v |-> s]

Digits == <<"0", "1", "2", "3", "4", "5", "6", "7", "8", "9">>

RECURSIVE NumberToString(_)
\* the decimal string of a non-negative integer inside a template literal
NumberToString(n) ==
    IF n < 10 THEN Digits[n + 1] ELSE NumberToString(n \div 10) \o Digits[(n % 10) + 1]

\* a || b in the place of a ?? b: the number 0 gives way too
Coalesce_or(a, b) == IF a = Undefined \/ a = Null \/ a = [js |-> "number", v |-> 0] THEN b ELSE a

\* a ?? b
Coalesce(a, b) == IF a = Undefined \/ a = Null THEN b ELSE a

\* !x for the values used here (undefined and null are falsy, a layer is truthy)
Falsy(x) == x = Undefined \/ x = Null

(***************************************************************************)
(* Memory lens visualization.                                              *)
(***************************************************************************)

BREAKDOWN_COLUMN_NAME == "hosts_aggs_breakdown"
HISTOGRAM_COLUMN_NAME == "x_date_histogram"
DEFAULT_LAYER_ID == "layer1"

\* Largest options.breakdownSize a Memory object is constructed with.
MaxBreakdownSize == 3

\* The data views and options that a Memory object is constructed with.
DataViews == [id : {Undefined, Str("dv1")},
              timeFieldName : {Undefined, Str("@timestamp"), Str("event.ingested")}]

LensOptionsSet == [breakdownSize : 1..MaxBreakdownSize]

NoCall == [method |-> "none", threw |-> FALSE, error |-> "", value |-> Undefined]

Returned(m, v) == [method |-> m, threw |-> FALSE, error |-> "", value |-> v]
Threw(m, msg) == [method |-> m, threw |-> TRUE, error |-> msg, value |-> Undefined]

\* getBreakdownColumn(columnName, field, size): one terms column under columnName
getBreakdownColumn(columnName, field, size) ==
    columnName :> [operationType |-> "terms", sourceField |-> Str(field), size |-> size]

\* getHistogramColumn(columnName, sourceField): one date_histogram column under columnName
getHistogramColumn(columnName, sourceField) ==
    columnName :> [operationType |-> "date_histogram", sourceField |-> sourceField, size |-> 0]

\* const baseLayer = { columnOrder, columns }
BaseLayer(m) ==
    [columnOrder |-> <<BREAKDOWN_COLUMN_NAME, HISTOGRAM_COLUMN_NAME>>,
     columns |-> getBreakdownColumn(BREAKDOWN_COLUMN_NAME, "host.name", m.options.breakdownSize)
                 @@ getHistogramColumn(HISTOGRAM_COLUMN_NAME,
                                       Coalesce(m.dataView.timeFieldName, Str("@timestamp")))]

\* formula.insertOrReplaceFormulaColumn(id, {formula, format}, layer, dataView):
\* the layer with the formula column added, or no layer when the formula does
\* not resolve
InsertOrReplaceFormulaColumn(id, formula, layer) ==
    { Undefined, Null,
      [columnOrder |-> Append(layer.columnOrder, id),
       columns |-> (id :> [operationType |-> "formula", sourceField |-> Str(formula), size |-> 0])
                   @@ layer.columns] }

MemoryFormula == "average(system.memory.actual.used.bytes) / max(system.memory.total)"

\* LayersOf whose guard only catches undefined
LayersOf_undefinedOnly(dataLayer) ==
    IF dataLayer = Undefined
    THEN Threw("getLayers", "Error generating the data layer for the chart")
    ELSE Returned("getLayers", DEFAULT_LAYER_ID :> dataLayer)

\* the tail of getLayers: the guard on dataLayer and the returned record
LayersOf(dataLayer) ==
    IF Falsy(dataLayer)
    THEN Threw("getLayers", "Error generating the data layer for the chart")
    ELSE Returned("getLayers", DEFAULT_LAYER_ID :> dataLayer)

\* the methods of ILensVisualization
MemoryMethods ==
    {"getTitle", "getVisualizationType", "getLayers", "getVisualizationState", "getFilters",
     "getReferences"}

\* a method of the Memory object returns or throws
MemoryCall(call) ==
    /\ memCall' = call
    /\ memResults' = [memResults EXCEPT ![call.method] = call]
    /\ UNCHANGED <<memory, guideVars, zeekVars, filterVars, settingsVars>>

\* Memory.getLayers
GetLayers ==
    \E dataLayer \in InsertOrReplaceFormulaColumn("y_memory_usage", MemoryFormula, BaseLayer(memory)) :
        MemoryCall(LayersOf(dataLayer) @@ [formulaResult |-> dataLayer])

\* Memory.getTitle
GetTitle ==
    MemoryCall(Returned("getTitle", Str("Disk Writes IOPS")) @@ [formulaResult |-> Undefined])

\* Memory.getVisualizationType
GetVisualizationType ==
    MemoryCall(Returned("getVisualizationType", Str("lnsXY")) @@ [formulaResult |-> Undefined])

\* XYLayer with the accessor of another chart
XYLayer_cpuAccessor ==
    [layerId |-> DEFAULT_LAYER_ID,
     seriesType |-> "line",
     accessors |-> <<"y_cpu_usage">>,
     yConfig |-> <<>>,
     layerType |-> "data",
     xAccessor |-> HISTOGRAM_COLUMN_NAME,
     splitAccessor |-> BREAKDOWN_COLUMN_NAME]

\* the layer getVisualizationState passes to getXYVisualizationState
XYLayer ==
    [layerId |-> DEFAULT_LAYER_ID,
     seriesType |-> "line",
     accessors |-> <<"y_memory_usage">>,
     yConfig |-> <<>>,
     layerType |-> "data",
     xAccessor |-> HISTOGRAM_COLUMN_NAME,
     splitAccessor |-> BREAKDOWN_COLUMN_NAME]

\* getXYVisualizationState(custom): the XY state with the given layers and extent
\* over the defaults of the other settings
getXYVisualizationState(custom) ==
    custom @@ [legend |-> [isVisible |-> FALSE], preferredSeriesType |-> "line",
               layers |-> <<>>, yLeftExtent |-> [mode |-> "full"]]

\* Memory.getVisualizationState
GetVisualizationState ==
    MemoryCall(Returned("getVisualizationState",
                        getXYVisualizationState(
                            [layers |-> <<XYLayer>>,
                             yLeftExtent |-> [mode |-> "custom", lowerBound |-> 0, upperBound |-> 1]]))
               @@ [formulaResult |-> Undefined])

\* one element of getFilters' array: an exists filter on a field
ExistsFilter(field) ==
    [meta |-> [disabled |-> FALSE, negate |-> FALSE, alias |-> Null,
               index |-> "3be1e71b-4bc5-4462-a314-04539f877a19",
               key |-> field, value |-> "exists", type |-> "exists"],
     query |-> [exists |-> [field |-> field]],
     state |-> [store |-> "appState"]]

\* Memory.getFilters
GetFilters ==
    MemoryCall(Returned("getFilters",
                        <<ExistsFilter("system.memory.actual.used.bytes"),
                          ExistsFilter("system.memory.total")>>)
               @@ [formulaResult |-> Undefined])

\* Memory.getReferences
GetReferences ==
    MemoryCall(Returned("getReferences",
                        <<[type |-> "index-pattern",
                           id |-> Coalesce(memory.dataView.id, Str("")),
                           name |-> "indexpattern-datasource-layer-" \o DEFAULT_LAYER_ID]>>)
               @@ [formulaResult |-> Undefined])

\* new Memory(dataView, options, formula)
NewMemory ==
    /\ memory' \in [dataView : DataViews, options : LensOptionsSet]
    /\ memCall' = NoCall @@ [formulaResult |-> Undefined]
    /\ memResults' = [m \in MemoryMethods |-> NoCall @@ [formulaResult |-> Undefined]]
    /\ UNCHANGED <<guideVars, zeekVars, filterVars, settingsVars>>

MemoryIdle ==
    /\ memory = [dataView |-> [id |-> Undefined, timeFieldName |-> Undefined],
                 options |-> [breakdownSize |-> 1]]
    /\ memCall = NoCall @@ [formulaResult |-> Undefined]
    /\ memResults = [m \in MemoryMethods |-> NoCall @@ [formulaResult |-> Undefined]]

MemoryInit ==
    /\ memory \in [dataView : DataViews, options : LensOptionsSet]
    /\ memCall = NoCall @@ [formulaResult |-> Undefined]
    /\ memResults = [m \in MemoryMethods |-> NoCall @@ [formulaResult |-> Undefined]]

MemoryNext ==
    \/ NewMemory
    \/ GetLayers
    \/ GetTitle
    \/ GetVisualizationType
    \/ GetVisualizationState
    \/ GetFilters
    \/ GetReferences

(***************************************************************************)
(* Zeek connection state: the dictionary and the two lookups the           *)
(* ZeekSignature component makes when it renders an event.                 *)
(***************************************************************************)

Fn(name) == [js |-> "function", v |-> name]
Obj(name) == [js |-> "object", v |-> name]

ZeekCodes ==
    {"S0", "S1", "S2", "S3", "SF", "REJ", "RSTO", "RSTR", "RSTOS0", "RSTRH", "SH", "SHR", "OTH"}

\* zeekConnLogDictionay: the own properties of the object literal, each the
\* translated description of its code
zeekConnLogDictionay == [code \in ZeekCodes |-> Str("i18n." \o code)]

\* The properties every object literal inherits from Object.prototype.
ObjectPrototypeMethods ==
    {"constructor", "toString", "toLocaleString", "valueOf", "hasOwnProperty",
     "isPrototypeOf", "propertyIsEnumerable", "__defineGetter__", "__defineSetter__",
     "__lookupGetter__", "__lookupSetter__"}

\* zeekConnLogDictionay[state]: an own property, else the property of that name
\* on the prototype chain, else undefined
DictionaryLookup(state) ==
    IF state \in DOMAIN zeekConnLogDictionay THEN zeekConnLogDictionay[state]
    ELSE IF state \in ObjectPrototypeMethods THEN Fn(state)
    ELSE IF state = "__proto__" THEN Obj("Object.prototype")
    ELSE Undefined

\* the string a value becomes inside a template literal
StringOf(x) ==
    IF x.js = "string" THEN x.v
    ELSE IF x.js = "number" THEN NumberToString(x.v)
    ELSE IF x.js = "function" THEN "function " \o x.v \o "() { [native code] }"
    ELSE IF x.js = "object" THEN "[object Object]"
    ELSE x.js

\* extractStateLink
extractStateLink(state) ==
    IF state # Null /\ state # Undefined
    THEN LET lookup == DictionaryLookup(state.v)
         IN IF lookup # Null /\ lookup # Undefined
            THEN Str(state.v \o " " \o StringOf(lookup))
            ELSE state
    ELSE Null

\* extractStateValue
extractStateValue(state) ==
    IF state # Null /\ state # Undefined
       /\ DictionaryLookup(state.v) # Null /\ DictionaryLookup(state.v) # Undefined
    THEN DictionaryLookup(state.v)
    ELSE Null

\* Strings that are neither a code nor an inherited property name.
OtherStates == {"", "s0", "S4", "sf", "RST", "S0 ", "OTHER", "established"}

\* get('zeek.connection.state[0]', data): string | null | undefined
ZeekStates ==
    {Null, Undefined}
    \cup {Str(s) : s \in ZeekCodes \cup ObjectPrototypeMethods \cup {"__proto__"} \cup OtherStates}

\* ZeekSignature is rendered for an event
Render ==
    /\ zeekState' \in ZeekStates
    /\ zeekPc' = "state"
    /\ stateLink' = Undefined
    /\ stateValue' = Undefined
    /\ UNCHANGED <<guideVars, memoryVars, filterVars, settingsVars>>

\* const stateLink = extractStateLink(state)
RenderStateLink ==
    /\ zeekPc = "state"
    /\ stateLink' = extractStateLink(zeekState)
    /\ zeekPc' = "link"
    /\ UNCHANGED <<zeekState, stateValue, guideVars, memoryVars, filterVars, settingsVars>>

\* const stateValue = extractStateValue(state)
RenderStateValue ==
    /\ zeekPc = "link"
    /\ stateValue' = extractStateValue(zeekState)
    /\ zeekPc' = "rendered"
    /\ UNCHANGED <<zeekState, stateLink, guideVars, memoryVars, filterVars, settingsVars>>

ZeekIdle ==
    /\ zeekState = Undefined
    /\ zeekPc = "idle"
    /\ stateLink = Undefined
    /\ stateValue = Undefined

ZeekInit ==
    /\ zeekState \in ZeekStates
    /\ zeekPc = "state"
    /\ stateLink = Undefined
    /\ stateValue = Undefined

ZeekNext ==
    \/ Render
    \/ RenderStateLink
    \/ RenderStateValue

GuideIdle == GuideInit

(***************************************************************************)
(* FilterBarService: the filter types, and the page object's methods as    *)
(* sequences of awaited browser calls.                                     *)
(***************************************************************************)

Num(n) == [js |-> "number", v |-> n]
Bool(b) == [js |-> "boolean", v |-> b]
Arr(seq) == [js |-> "array", v |-> seq]

Operation ==
    [IS |-> "is", IS_NOT |-> "is not", IS_ONE_OF |-> "is one of",
     IS_NOT_ONE_OF |-> "is not one of", IS_BETWEEN |-> "is between",
     IS_NOT_BETWEEN |-> "is not between", EXISTS |-> "exists",
     DOES_NOT_EXIST |-> "does not exist"]

BooleanRelation == [AND |-> "AND", OR |-> "OR"]

\* Largest number of vertices (leaves and boolean nodes) of a filter tree.
MaxNodes == 4

\* Largest number of elements of an array value.
MaxArrayLen == 2

\* FilterWithoutValue: no value property
FilterWithoutValue ==
    {[field |-> "country", operation |-> op] : op \in {Operation.EXISTS, Operation.DOES_NOT_EXIST}}

\* FilterWithSingleValue
FilterWithSingleValue ==
    {[field |-> "country", operation |-> op, value |-> Str("NL")] : op \in {Operation.IS, Operation.IS_NOT}}

\* The array values: the first n of a list of extensions, n up to MaxArrayLen.
Extensions == <<"jpg", "png", "gif", "css", "php">>

ArrayValues == {SubSeq(Extensions, 1, n) : n \in 0..MaxArrayLen}

\* FilterWithMultipleValues
FilterWithMultipleValues ==
    {[field |-> "extension", operation |-> Operation.IS_ONE_OF, value |-> Arr(a)] : a \in ArrayValues}

RangeBounds == {Undefined, Num(0), Num(500)}

\* FilterWithRange
FilterWithRange ==
    {[field |-> "bytes", operation |-> Operation.IS_BETWEEN,
      value |-> [js |-> "object", from |-> f, to |-> t]] : f \in RangeBounds, t \in RangeBounds}

\* FilterLeaf
FilterLeaf ==
    FilterWithoutValue \cup FilterWithSingleValue \cup FilterWithMultipleValues \cup FilterWithRange

\* isFilterNode
isFilterNode(filter) == "filters" \in DOMAIN filter /\ "condition" \in DOMAIN filter

\* The leaf and the node that stand at the vertices of a tree shape.
ShapeLeaf == [field |-> "", operation |-> Operation.EXISTS]

ShapeNode(filters) == [condition |-> BooleanRelation.AND, filters |-> filters]

RECURSIVE TreesOfSize(_), ForestsOfSize(_)
\* FilterNode / Filter: the tree shapes with exactly n vertices
TreesOfSize(n) ==
    IF n = 1 THEN {ShapeLeaf, ShapeNode(<<>>)}
    ELSE {ShapeNode(fs) : fs \in ForestsOfSize(n - 1)}

\* the sequences of tree shapes with n vertices in total
ForestsOfSize(n) ==
    IF n = 0 THEN {<<>>}
    ELSE UNION {{<<t>> \o fs : t \in TreesOfSize(k), fs \in ForestsOfSize(n - k)} : k \in 1..n}

\* the leaf at vertex n of a tree: its own field, without a value for odd n and
\* with a single value for even n
NumberedLeaf(n) ==
    IF n % 2 = 1
    THEN [field |-> "field" \o NumberToString(n), operation |-> Operation.EXISTS]
    ELSE [field |-> "field" \o NumberToString(n), operation |-> Operation.IS, value |-> Str("NL")]

\* the condition of the node at vertex n of a tree
NumberedCondition(n) == IF n % 2 = 1 THEN BooleanRelation.AND ELSE BooleanRelation.OR

RECURSIVE NumberVertices(_, _), NumberVerticesOfAll(_, _)
\* a tree shape with its vertices replaced by the vertices numbered from n on,
\* parents before children and children left to right
NumberVertices(filter, n) ==
    IF isFilterNode(filter)
    THEN LET r == NumberVerticesOfAll(filter.filters, n + 1)
         IN [filter |-> [condition |-> NumberedCondition(n), filters |-> r.filters], next |-> r.next]
    ELSE [filter |-> NumberedLeaf(n), next |-> n + 1]

NumberVerticesOfAll(filters, n) ==
    IF filters = <<>> THEN [filters |-> <<>>, next |-> n]
    ELSE LET h == NumberVertices(Head(filters), n)
             t == NumberVerticesOfAll(Tail(filters), h.next)
         IN [filters |-> <<h.filter>> \o t.filters, next |-> t.next]

\* The filter trees: every shape of up to MaxNodes vertices, its vertices numbered
\* from 1 or from 2, so that its leaves differ and its conditions alternate.
FilterTrees ==
    {NumberVertices(t, first).filter :
        t \in UNION {TreesOfSize(n) : n \in 1..MaxNodes}, first \in {1, 2}}

\* Filter = FilterLeaf | FilterNode
Filters == FilterLeaf \cup FilterTrees

\* isFilterLeafWithoutValue
isFilterLeafWithoutValue(filter) == ~("value" \in DOMAIN filter)

\* isFilterWithRange
isFilterWithRange(filter) ==
    /\ "value" \in DOMAIN filter
    /\ filter.value.js # "array"
    /\ filter.value.js = "object"
    /\ "from" \in DOMAIN filter.value
    /\ "to" \in DOMAIN filter.value

\* ChildPath without the dot between the path and the index
ChildPath_noDot(path, index) == path \o NumberToString(index)

\* `${path}.${index}`
ChildPath(path, index) == path \o "." \o NumberToString(index)

\* a browser call: the action, the form it is scoped to ("" for the page), the
\* test subject or tag it targets, the index of the element among those found
\* (-1 when a single element is addressed) and the text passed
Ev(act, form, subj, idx, text) ==
    [act |-> act, form |-> form, subj |-> subj, idx |-> idx, text |-> text]

\* Largest number of attempts a retried block makes before its time is up.
MaxAttempts == 2

\* Largest number of value arguments of addFilter.
MaxValues == 2

\* Largest number of combo boxes, and of inputs, the filter form shows.
MaxInputs == 2

\* Largest length of the options text read from a combo box.
MaxOptionsLen == 3

NoRet == [threw |-> FALSE, value |-> Undefined, pending |-> TRUE]
RetValue(v) == [threw |-> FALSE, value |-> v, pending |-> FALSE]
RetThrew == [threw |-> TRUE, value |-> Undefined, pending |-> FALSE]

Locals0 ==
    [filter |-> Undefined, path |-> "", i |-> 0, j |-> 0, nCombo |-> 0, nInputs |-> 0,
     exists |-> FALSE, options |-> <<>>, opens |-> 0, timeout |-> 0,
     inFlight |-> {}, texts |-> <<>>, order |-> <<>>]

NoPill == [present |-> FALSE, classes |-> <<>>, hidden |-> FALSE]
ClosedPage == [editor |-> "closed", pill |-> NoPill, filters |-> <<>>]

\* a truthy dataViewTitle: a non-empty string
Truthy(x) == x.js = "string" /\ x.v # ""

Top(stack) == stack[Len(stack)]

\* one activation of createFilter on a FilterNode: the loop over filter.filters
Frame(filter, path) ==
    [filter |-> filter, path |-> path, index |-> 0, startedAdding |-> FALSE, added |-> FALSE]

FilterIdle ==
    /\ fbCall = [method |-> "none"]
    /\ fbPc = "idle"
    /\ fbStack = <<>>
    /\ fbLocal = Locals0
    /\ fbLog = <<>>
    /\ fbAttempt = 0
    /\ fbRet = NoRet
    /\ page = ClosedPage

\* the test moves on after a method has returned or rejected
Settle ==
    /\ fbPc = "done"
    /\ fbCall' = [method |-> "none"]
    /\ fbPc' = "idle"
    /\ fbStack' = <<>>
    /\ fbLocal' = Locals0
    /\ fbLog' = <<>>
    /\ fbAttempt' = 0
    /\ fbRet' = NoRet
    /\ page' = ClosedPage
    /\ UNCHANGED <<guideVars, memoryVars, zeekVars, settingsVars>>

\* a test calls a method of the service
Invoke(call, pc, pg) ==
    /\ fbPc = "idle"
    /\ fbCall' = call
    /\ fbPc' = pc
    /\ fbStack' = <<>>
    /\ fbLocal' = Locals0
    /\ fbLog' = <<>>
    /\ fbAttempt' = 1
    /\ fbRet' = NoRet
    /\ page' = pg
    /\ UNCHANGED <<guideVars, memoryVars, zeekVars, settingsVars>>

DataViewTitles == {Null, Str(""), Str("logstash-*")}

\* The calls of newAddFilterAndSelectDataView: every leaf with every kind of
\* data view title, every tree with a title.
NewAddFilterCalls ==
    (DataViewTitles \X FilterLeaf) \cup ({Str("logstash-*")} \X FilterTrees)

\* newAddFilterAndSelectDataView(dataViewTitle, filter)
CallNewAddFilterAndSelectDataView ==
    /\ fbPc = "idle"
    /\ \E call \in NewAddFilterCalls :
           Invoke([method |-> "newAddFilterAndSelectDataView",
                   dataViewTitle |-> call[1], filter |-> call[2]],
                  "open", ClosedPage)

\* this.config.get('timeouts.try'), in milliseconds
defaultTryTimeout == 120000

\* the time retry.tryForTime is given for the block
TryForTimeout == defaultTryTimeout * 2

\* openFilterBuilder: click addFilter until the popover exists; then
\* retry.tryForTime(this.defaultTryTimeout * 2, block) is entered
OpenFilterBuilder ==
    /\ fbPc = "open"
    /\ fbLocal' = [fbLocal EXCEPT !.opens = @ + 1, !.timeout = TryForTimeout]
    /\ page' = [page EXCEPT !.editor = "open"]
    /\ fbPc' = "dataView"
    /\ UNCHANGED <<fbCall, fbStack, fbLog, fbAttempt, fbRet, guideVars, memoryVars, zeekVars, settingsVars>>

\* start of the retried block: if (dataViewTitle) comboBox.set('filterIndexPatternsSelect', dataViewTitle)
SelectDataView ==
    /\ fbPc = "dataView"
    /\ fbLog' = IF Truthy(fbCall.dataViewTitle)
                THEN Append(fbLog, Ev("set", "", "filterIndexPatternsSelect", -1, fbCall.dataViewTitle.v))
                ELSE fbLog
    /\ IF fbCall.method = "newAddFilterAndSelectDataView"
       THEN /\ fbPc' = "cf.call"
            /\ fbLocal' = [fbLocal EXCEPT !.filter = fbCall.filter, !.path = "0"]
       ELSE /\ fbPc' = "af.field"
            /\ fbLocal' = fbLocal
    /\ UNCHANGED <<fbCall, fbStack, fbAttempt, fbRet, page, guideVars, memoryVars, zeekVars, settingsVars>>

\* createFilter(filter, path) is entered: a node starts its loop, a leaf is pasted
CreateFilterCall ==
    /\ fbPc = "cf.call"
    /\ IF isFilterNode(fbLocal.filter)
       THEN /\ fbStack' = Append(fbStack, Frame(fbLocal.filter, fbLocal.path))
            /\ fbPc' = "cf.loop"
       ELSE /\ fbStack' = fbStack
            /\ fbPc' = "paste.field"
    /\ UNCHANGED <<fbCall, fbLocal, fbLog, fbAttempt, fbRet, page, guideVars, memoryVars, zeekVars, settingsVars>>

\* the path addConditionalFilter is given inside createFilter's loop
ConditionPath(frame) ==
    IF frame.startedAdding THEN ChildPath(frame.path, frame.index) ELSE frame.path

\* ConditionButton that clicks add-and-filter whatever the condition
ConditionButton_alwaysAnd(filter) == "add-and-filter"

\* the button addConditionalFilter clicks: addOrFilter for OR, addAndFilter otherwise
ConditionButton(filter) ==
    IF filter.condition = BooleanRelation.OR THEN "add-or-filter" ELSE "add-and-filter"

\* if (index < filter.filters.length - 1) await this.addConditionalFilter(...)
AddConditionalFilter ==
    /\ fbPc = "cf.loop"
    /\ LET frame == Top(fbStack)
       IN /\ ~frame.added
          /\ frame.index < Len(frame.filter.filters) - 1
          /\ fbLog' = Append(fbLog, Ev("click", ConditionPath(frame), ConditionButton(frame.filter), -1, ""))
          /\ fbStack' = [fbStack EXCEPT ![Len(fbStack)].added = TRUE]
    /\ UNCHANGED <<fbCall, fbPc, fbLocal, fbAttempt, fbRet, page, guideVars, memoryVars, zeekVars, settingsVars>>

\* await this.createFilter(f, `${path}.${index}`)
CreateFilterChild ==
    /\ fbPc = "cf.loop"
    /\ LET frame == Top(fbStack)
       IN /\ frame.index < Len(frame.filter.filters)
          /\ frame.added \/ ~(frame.index < Len(frame.filter.filters) - 1)
          /\ fbLocal' = [fbLocal EXCEPT !.filter = frame.filter.filters[frame.index + 1],
                                        !.path = ChildPath(frame.path, frame.index)]
    /\ fbPc' = "cf.call"
    /\ UNCHANGED <<fbCall, fbStack, fbLog, fbAttempt, fbRet, page, guideVars, memoryVars, zeekVars, settingsVars>>

\* a createFilter activation returns: to the loop of its caller (startedAdding =
\* true, next index), or, for the outermost one, to newAddFilterAndSelectDataView
ReturnFromCreateFilter(stack) ==
    IF stack = <<>>
    THEN /\ fbPc' = "save"
         /\ fbStack' = <<>>
    ELSE /\ fbPc' = "cf.loop"
         /\ fbStack' = [stack EXCEPT ![Len(stack)] =
                           [@ EXCEPT !.index = @ + 1, !.startedAdding = TRUE, !.added = FALSE]]

\* the loop of a node is over: return
CreateFilterReturn ==
    /\ fbPc = "cf.loop"
    /\ Top(fbStack).index >= Len(Top(fbStack).filter.filters)
    /\ ReturnFromCreateFilter(SubSeq(fbStack, 1, Len(fbStack) - 1))
    /\ UNCHANGED <<fbCall, fbLocal, fbLog, fbAttempt, fbRet, page, guideVars, memoryVars, zeekVars, settingsVars>>

\* this.browser.keys
Keys == [ENTER |-> "Keys.ENTER", TAB |-> "Keys.TAB"]

\* pasteFilterData: comboBox.setElement(fieldInput, filter.field)
PasteField ==
    /\ fbPc = "paste.field"
    /\ fbLog' = Append(fbLog, Ev("setElement", fbLocal.path, "filterFieldSuggestionList", -1,
                                 fbLocal.filter.field))
    /\ fbPc' = "paste.operator"
    /\ UNCHANGED <<fbCall, fbStack, fbLocal, fbAttempt, fbRet, page, guideVars, memoryVars, zeekVars, settingsVars>>

\* pasteFilterData: comboBox.setElement(operatorInput, filter.operation), then
\* return for a leaf without value, else on to the range or the value input
PasteOperator ==
    /\ fbPc = "paste.operator"
    /\ fbLog' = Append(fbLog, Ev("setElement", fbLocal.path, "filterOperatorList", -1,
                                 fbLocal.filter.operation))
    /\ IF isFilterLeafWithoutValue(fbLocal.filter)
       THEN ReturnFromCreateFilter(fbStack)
       ELSE /\ fbPc' = IF isFilterWithRange(fbLocal.filter) THEN "paste.start" ELSE "paste.params"
            /\ fbStack' = fbStack
    /\ UNCHANGED <<fbCall, fbLocal, fbAttempt, fbRet, page, guideVars, memoryVars, zeekVars, settingsVars>>

\* pasteFilterData: startInput.type(`${filter.value.from ?? ''}`)
PasteRangeStart ==
    /\ fbPc = "paste.start"
    /\ fbLog' = Append(fbLog, Ev("type", fbLocal.path, "range-start", -1,
                                 StringOf(Coalesce(fbLocal.filter.value.from, Str("")))))
    /\ fbPc' = "paste.end"
    /\ UNCHANGED <<fbCall, fbStack, fbLocal, fbAttempt, fbRet, page, guideVars, memoryVars, zeekVars, settingsVars>>

\* pasteFilterData: endInput.type(`${filter.value.to ?? ''}`); return
PasteRangeEnd ==
    /\ fbPc = "paste.end"
    /\ fbLog' = Append(fbLog, Ev("type", fbLocal.path, "range-end", -1,
                                 StringOf(Coalesce(fbLocal.filter.value.to, Str("")))))
    /\ ReturnFromCreateFilter(fbStack)
    /\ UNCHANGED <<fbCall, fbLocal, fbAttempt, fbRet, page, guideVars, memoryVars, zeekVars, settingsVars>>

\* pasteFilterData: find filterParams and its input; an empty array has nothing to type
FindValueInput ==
    /\ fbPc = "paste.params"
    /\ fbLog' = Append(fbLog, Ev("find", fbLocal.path, "filterParams input", -1, ""))
    /\ fbLocal' = [fbLocal EXCEPT !.j = 0]
    /\ IF fbLocal.filter.value.js = "array" /\ Len(fbLocal.filter.value.v) = 0
       THEN ReturnFromCreateFilter(fbStack)
       ELSE /\ fbPc' = "paste.value"
            /\ fbStack' = fbStack
    /\ UNCHANGED <<fbCall, fbAttempt, fbRet, page, guideVars, memoryVars, zeekVars, settingsVars>>

\* pasteFilterData: filterValueInput.type(value) for the next element of an
\* array, or filterValueInput.type(filter.value) and return for a single value
PasteValue ==
    /\ fbPc = "paste.value"
    /\ IF fbLocal.filter.value.js = "array"
       THEN /\ fbLog' = Append(fbLog, Ev("type", fbLocal.path, "filterParams input", -1,
                                         fbLocal.filter.value.v[fbLocal.j + 1]))
            /\ fbPc' = "paste.enter"
            /\ fbStack' = fbStack
       ELSE /\ fbLog' = Append(fbLog, Ev("type", fbLocal.path, "filterParams input", -1,
                                         fbLocal.filter.value.v))
            /\ ReturnFromCreateFilter(fbStack)
    /\ UNCHANGED <<fbCall, fbLocal, fbAttempt, fbRet, page, guideVars, memoryVars, zeekVars, settingsVars>>

\* pasteFilterData: filterValueInput.type(this.browser.keys.ENTER); next element or return
PasteEnter ==
    /\ fbPc = "paste.enter"
    /\ fbLog' = Append(fbLog, Ev("type", fbLocal.path, "filterParams input", -1, Keys.ENTER))
    /\ fbLocal' = [fbLocal EXCEPT !.j = @ + 1]
    /\ IF fbLocal.j + 1 < Len(fbLocal.filter.value.v)
       THEN /\ fbPc' = "paste.value"
            /\ fbStack' = fbStack
       ELSE ReturnFromCreateFilter(fbStack)
    /\ UNCHANGED <<fbCall, fbAttempt, fbRet, page, guideVars, memoryVars, zeekVars, settingsVars>>

\* testSubjects.clickWhenNotDisabledWithoutRetry('saveFilter'): the retried block is over
ClickSaveFilter ==
    /\ fbPc = "save"
    /\ fbLog' = Append(fbLog, Ev("clickWhenNotDisabledWithoutRetry", "", "saveFilter", -1, ""))
    /\ page' = [page EXCEPT !.editor = "closing"]
    /\ fbPc' = "loading"
    /\ UNCHANGED <<fbCall, fbStack, fbLocal, fbAttempt, fbRet, guideVars, memoryVars, zeekVars, settingsVars>>

\* header.awaitGlobalLoadingIndicatorHidden(); the method returns
AwaitGlobalLoadingIndicatorHidden ==
    /\ fbPc = "loading"
    /\ fbLog' = Append(fbLog, Ev("awaitGlobalLoadingIndicatorHidden", "", "", -1, ""))
    /\ fbRet' = RetValue(Undefined)
    /\ fbPc' = "done"
    /\ UNCHANGED <<fbCall, fbStack, fbLocal, fbAttempt, page, guideVars, memoryVars, zeekVars, settingsVars>>

\* the filter editor finishes closing after save or cancel was clicked
EditorCloses ==
    /\ page.editor = "closing"
    /\ page' = [page EXCEPT !.editor = "closed"]
    /\ UNCHANGED <<fbCall, fbPc, fbStack, fbLocal, fbLog, fbAttempt, fbRet, guideVars, memoryVars, zeekVars, settingsVars>>

\* The value arguments of addFilter: a string, or an array of strings.
ValueArgs == {Str("500")} \cup {Arr(a) : a \in ArrayValues}

ValueLists == UNION {[1..n -> ValueArgs] : n \in 0..MaxValues}

\* addFilterAndSelectDataView(dataViewTitle, field, operator, ...values)
CallAddFilterAndSelectDataView ==
    /\ fbPc = "idle"
    /\ \E title \in DataViewTitles \ {Null}, values \in ValueLists :
           Invoke([method |-> "addFilterAndSelectDataView", dataViewTitle |-> title,
                   field |-> "extension", operator |-> Operation.IS_ONE_OF, values |-> values],
                  "open", ClosedPage)

\* addFilter(field, operator, ...values): addFilterAndSelectDataView(null, field, operator, ...values)
CallAddFilter ==
    /\ fbPc = "idle"
    /\ \E values \in ValueLists :
           Invoke([method |-> "addFilter", dataViewTitle |-> Null,
                   field |-> "extension", operator |-> Operation.IS_ONE_OF, values |-> values],
                  "open", ClosedPage)

\* comboBox.set('filterFieldSuggestionList', field)
SetField ==
    /\ fbPc = "af.field"
    /\ fbLog' = Append(fbLog, Ev("set", "", "filterFieldSuggestionList", -1, fbCall.field))
    /\ fbPc' = "af.operator"
    /\ UNCHANGED <<fbCall, fbStack, fbLocal, fbAttempt, fbRet, page, guideVars, memoryVars, zeekVars, settingsVars>>

\* comboBox.set('filterOperatorList', operator)
SetOperator ==
    /\ fbPc = "af.operator"
    /\ fbLog' = Append(fbLog, Ev("set", "", "filterOperatorList", -1, fbCall.operator))
    /\ fbPc' = "af.params"
    /\ UNCHANGED <<fbCall, fbStack, fbLocal, fbAttempt, fbRet, page, guideVars, memoryVars, zeekVars, settingsVars>>

\* find filterParams, its combo boxes and its inputs: the form shows what the
\* chosen operator asks for, and every combo box holds an input
FindParams ==
    /\ fbPc = "af.params"
    /\ \E nInputs \in 0..MaxInputs : \E nCombo \in 0..nInputs :
          fbLocal' = [fbLocal EXCEPT !.nCombo = nCombo, !.nInputs = nInputs, !.i = 0, !.j = 0]
    /\ fbPc' = "af.values"
    /\ UNCHANGED <<fbCall, fbStack, fbLog, fbAttempt, fbRet, page, guideVars, memoryVars, zeekVars, settingsVars>>

\* let fieldValues = values[i]; if (!Array.isArray(fieldValues)) fieldValues = [fieldValues]
FieldValues(arg) == IF arg.js = "array" THEN arg.v ELSE <<arg.v>>

\* the loop body has a browser call to make on element number i: the next
\* element of fieldValues into a combo box or an input, or TAB into the input
ValueCallDue ==
    /\ fbLocal.i < Len(fbCall.values)
    /\ \/ fbLocal.nCombo > 0 /\ fbLocal.j < Len(FieldValues(fbCall.values[fbLocal.i + 1]))
       \/ fbLocal.nCombo = 0 /\ fbLocal.nInputs > 0

\* ParamTarget that indexes the form's elements by j
ParamTarget_byJ(i, j) == j

\* paramsComboBoxes[i] / paramFields[i]: the index of the form element that
\* element j of value argument i goes into
ParamTarget(i, j) == i

\* comboBox.setElement(paramsComboBoxes[i], fieldValues[j])
SetParamsComboBox ==
    /\ fbPc = "af.values"
    /\ ValueCallDue
    /\ fbLocal.nCombo > 0
    /\ ParamTarget(fbLocal.i, fbLocal.j) < fbLocal.nCombo
    /\ fbLog' = Append(fbLog, Ev("setElement", "", "filterParamsComboBox",
                                 ParamTarget(fbLocal.i, fbLocal.j),
                                 FieldValues(fbCall.values[fbLocal.i + 1])[fbLocal.j + 1]))
    /\ fbLocal' = [fbLocal EXCEPT !.j = @ + 1]
    /\ UNCHANGED <<fbCall, fbPc, fbStack, fbAttempt, fbRet, page, guideVars, memoryVars, zeekVars, settingsVars>>

\* paramFields[i].type(fieldValues[j]), and after the last one
\* paramFields[i].type(this.browser.keys.TAB) and the next i
TypeParamField ==
    /\ fbPc = "af.values"
    /\ ValueCallDue
    /\ fbLocal.nCombo = 0
    /\ ParamTarget(fbLocal.i, fbLocal.j) < fbLocal.nInputs
    /\ LET fieldValues == FieldValues(fbCall.values[fbLocal.i + 1])
       IN IF fbLocal.j < Len(fieldValues)
          THEN /\ fbLog' = Append(fbLog, Ev("type", "", "filterParams input",
                                            ParamTarget(fbLocal.i, fbLocal.j),
                                            fieldValues[fbLocal.j + 1]))
               /\ fbLocal' = [fbLocal EXCEPT !.j = @ + 1]
          ELSE /\ fbLog' = Append(fbLog, Ev("type", "", "filterParams input",
                                            ParamTarget(fbLocal.i, fbLocal.j), Keys.TAB))
               /\ fbLocal' = [fbLocal EXCEPT !.i = @ + 1, !.j = 0]
    /\ UNCHANGED <<fbCall, fbPc, fbStack, fbAttempt, fbRet, page, guideVars, memoryVars, zeekVars, settingsVars>>

\* the loop body is over for element i without a further browser call: all of
\* fieldValues went into the combo box, or the form has no combo box and no input
NextValue ==
    /\ fbPc = "af.values"
    /\ fbLocal.i < Len(fbCall.values)
    /\ ~ValueCallDue
    /\ fbLocal' = [fbLocal EXCEPT !.i = @ + 1, !.j = 0]
    /\ UNCHANGED <<fbCall, fbPc, fbStack, fbLog, fbAttempt, fbRet, page, guideVars, memoryVars, zeekVars, settingsVars>>

\* i < values.length is false: on to saveFilter
ValuesDone ==
    /\ fbPc = "af.values"
    /\ fbLocal.i >= Len(fbCall.values)
    /\ fbPc' = "save"
    /\ UNCHANGED <<fbCall, fbStack, fbLocal, fbLog, fbAttempt, fbRet, page, guideVars, memoryVars, zeekVars, settingsVars>>

\* The positions inside the block given to retry.tryForTime.
RetriedBlock ==
    {"dataView", "cf.call", "cf.loop", "paste.field", "paste.operator", "paste.start",
     "paste.end", "paste.params", "paste.value", "paste.enter", "save",
     "af.field", "af.operator", "af.params", "af.values"}

\* the next step of the method in flight is a browser call, which may reject
BrowserCallDue ==
    \/ fbPc \in {"open", "paste.field", "paste.operator", "paste.start", "paste.end",
                 "paste.params", "paste.value", "paste.enter", "save", "loading",
                 "af.field", "af.operator", "af.params",
                 "gip.click", "gip.options", "ens.click", "ens.wait", "gfc.find", "gfl.find"}
    \/ fbPc = "gfl.reads" /\ fbLocal.inFlight # {}
    \/ fbPc = "dataView" /\ Truthy(fbCall.dataViewTitle)
    \/ fbPc = "cf.loop" /\ ~Top(fbStack).added
                        /\ Top(fbStack).index < Len(Top(fbStack).filter.filters) - 1
    \/ fbPc = "af.values" /\ ValueCallDue

\* RetryBlock with openFilterBuilder inside the retried block
RetryBlock_reopens ==
    /\ BrowserCallDue
    /\ fbPc \in RetriedBlock
    /\ fbAttempt < MaxAttempts
    /\ fbAttempt' = fbAttempt + 1
    /\ fbPc' = "open"
    /\ fbStack' = <<>>
    /\ fbLog' = <<>>
    /\ fbLocal' = [Locals0 EXCEPT !.opens = fbLocal.opens, !.timeout = fbLocal.timeout]
    /\ UNCHANGED <<fbCall, fbRet, page, guideVars, memoryVars, zeekVars, settingsVars>>

\* retry.tryForTime: the block threw and time is left, so the block runs again
\* from its first statement
RetryBlock ==
    /\ BrowserCallDue
    /\ fbPc \in RetriedBlock
    /\ fbAttempt < MaxAttempts
    /\ fbAttempt' = fbAttempt + 1
    /\ fbPc' = "dataView"
    /\ fbStack' = <<>>
    /\ fbLog' = <<>>
    /\ fbLocal' = [Locals0 EXCEPT !.opens = fbLocal.opens, !.timeout = fbLocal.timeout]
    /\ UNCHANGED <<fbCall, fbRet, page, guideVars, memoryVars, zeekVars, settingsVars>>

\* a browser call rejects outside a retried block, or inside one whose time is
\* up: the method rejects
MethodThrows ==
    /\ BrowserCallDue
    /\ fbRet' = RetThrew
    /\ fbPc' = "done"
    /\ fbStack' = <<>>
    /\ UNCHANGED <<fbCall, fbLocal, fbLog, fbAttempt, page, guideVars, memoryVars, zeekVars, settingsVars>>

\* classNames(...args): the truthy arguments, joined by spaces; the joined
\* string is kept as the sequence of its words
classNames(args) ==
    SelectSeq(args, LAMBDA a : ~(a.js = "boolean" /\ ~a.v) /\ ~(a.js = "string" /\ a.v = ""))

\* HasFilterSelector that adds the key class also for an empty key
HasFilterSelector_keyAlways(key, value, enabledArg, pinnedArg, negatedArg) ==
    LET enabled == IF enabledArg = Undefined THEN TRUE ELSE enabledArg.v
        pinned == IF pinnedArg = Undefined THEN FALSE ELSE pinnedArg.v
        negated == IF negatedArg = Undefined THEN FALSE ELSE negatedArg.v
        filterActivationState == IF enabled THEN "enabled" ELSE "disabled"
        filterPinnedState == IF pinned THEN "pinned" ELSE "unpinned"
        filterNegatedState == IF negated THEN "filter-negated" ELSE ""
    IN classNames(<<Str("filter"),
                    Str("filter-" \o filterActivationState),
                    Str("filter-key-" \o key),
                    IF value # "" THEN Str("filter-value-" \o value) ELSE Bool(FALSE),
                    Str("filter-" \o filterPinnedState),
                    Str(filterNegatedState)>>)

\* hasFilter's selector, with the defaults of enabled, pinned and negated applied
HasFilterSelector(key, value, enabledArg, pinnedArg, negatedArg) ==
    LET enabled == IF enabledArg = Undefined THEN TRUE ELSE enabledArg.v
        pinned == IF pinnedArg = Undefined THEN FALSE ELSE pinnedArg.v
        negated == IF negatedArg = Undefined THEN FALSE ELSE negatedArg.v
        filterActivationState == IF enabled THEN "enabled" ELSE "disabled"
        filterPinnedState == IF pinned THEN "pinned" ELSE "unpinned"
        filterNegatedState == IF negated THEN "filter-negated" ELSE ""
    IN classNames(<<Str("filter"),
                    Str("filter-" \o filterActivationState),
                    IF key # "" THEN Str("filter-key-" \o key) ELSE Bool(FALSE),
                    IF value # "" THEN Str("filter-value-" \o value) ELSE Bool(FALSE),
                    Str("filter-" \o filterPinnedState),
                    Str(filterNegatedState)>>)

\* testSubjects.exists(selector, {allowHidden}): an element whose data-test-subj
\* is the selector is on the page, and is displayed unless hidden ones are allowed
TestSubjectsExists(pg, selector, allowHidden) ==
    /\ pg.pill.present
    /\ pg.pill.classes = selector
    /\ allowHidden \/ ~pg.pill.hidden

OptionalBooleans == {Undefined, Bool(TRUE), Bool(FALSE)}

FilterKeys == {"", "extension"}
FilterValues == {"", "jpg"}

\* The filter pills a page can show: their data-test-subj words and visibility.
Pills ==
    {NoPill} \cup
    {[present |-> TRUE, classes |-> HasFilterSelector(k, v, Bool(e), Bool(p), Bool(n)), hidden |-> h] :
        k \in FilterKeys, v \in FilterValues, e \in {TRUE}, p \in BOOLEAN, n \in BOOLEAN, h \in BOOLEAN}

\* hasFilter(key, value, enabled = true, pinned = false, negated = false)
CallHasFilter ==
    /\ fbPc = "idle"
    /\ \E key \in FilterKeys, value \in FilterValues, enabled \in OptionalBooleans,
          pinned \in OptionalBooleans, negated \in OptionalBooleans, pill \in Pills :
           Invoke([method |-> "hasFilter", key |-> key, value |-> value,
                   enabled |-> enabled, pinned |-> pinned, negated |-> negated],
                  "hf.exists", [editor |-> "closed", pill |-> pill, filters |-> <<>>])

\* return this.testSubjects.exists(classNames(...), { allowHidden: true })
HasFilter ==
    /\ fbPc = "hf.exists"
    /\ LET selector == HasFilterSelector(fbCall.key, fbCall.value, fbCall.enabled,
                                         fbCall.pinned, fbCall.negated)
       IN /\ fbLog' = Append(fbLog, [act |-> "exists", form |-> "", subj |-> "", idx |-> -1,
                                     text |-> "", classes |-> selector, allowHidden |-> TRUE])
          /\ fbRet' = RetValue(Bool(TestSubjectsExists(page, selector, TRUE)))
    /\ fbPc' = "done"
    /\ UNCHANGED <<fbCall, fbStack, fbLocal, fbAttempt, page, guideVars, memoryVars, zeekVars, settingsVars>>

\* Text is a sequence of characters where the code takes it apart.
OptionChars == {"a", "b", " ", "\n"}
Whitespace == {" ", "\n"}

OptionTexts == UNION {[1..n -> OptionChars] : n \in 0..MaxOptionsLen}

RECURSIVE TrimStart(_)
TrimStart(text) ==
    IF text # <<>> /\ Head(text) \in Whitespace THEN TrimStart(Tail(text)) ELSE text

RECURSIVE TrimEnd(_)
TrimEnd(text) ==
    IF text # <<>> /\ text[Len(text)] \in Whitespace
    THEN TrimEnd(SubSeq(text, 1, Len(text) - 1)) ELSE text

\* String.prototype.trim
Trim(text) == TrimEnd(TrimStart(text))

RECURSIVE Split(_, _)
\* String.prototype.split(separator) for a one-character separator
Split(text, sep) ==
    IF \E k \in 1..Len(text) : text[k] = sep
    THEN LET k == CHOOSE k \in 1..Len(text) : text[k] = sep /\ \A m \in 1..(k - 1) : text[m] # sep
         IN <<SubSeq(text, 1, k - 1)>> \o Split(SubSeq(text, k + 1, Len(text)), sep)
    ELSE <<text>>

RECURSIVE Join(_, _)
\* Array.prototype.join(separator)
Join(parts, sep) ==
    IF parts = <<>> THEN <<>>
    ELSE IF Len(parts) = 1 THEN parts[1]
    ELSE parts[1] \o <<sep>> \o Join(Tail(parts), sep)

\* The pages ensureFieldEditorModalIsClosed is called on: the editor closed,
\* open, or already closing.
EditorPages ==
    {[editor |-> e, pill |-> NoPill, filters |-> <<>>] : e \in {"closed", "open", "closing"}}

\* ensureFieldEditorModalIsClosed()
CallEnsureFieldEditorModalIsClosed ==
    /\ fbPc = "idle"
    /\ \E pg \in EditorPages : Invoke([method |-> "ensureFieldEditorModalIsClosed"], "ens.exists", pg)

\* getIndexPatterns()
CallGetIndexPatterns ==
    /\ fbPc = "idle"
    /\ Invoke([method |-> "getIndexPatterns"], "gip.click", ClosedPage)

\* testSubjects.click('addFilter')
ClickAddFilter ==
    /\ fbPc = "gip.click"
    /\ fbLog' = Append(fbLog, Ev("click", "", "addFilter", -1, ""))
    /\ page' = [page EXCEPT !.editor = "open"]
    /\ fbPc' = "gip.options"
    /\ UNCHANGED <<fbCall, fbStack, fbLocal, fbAttempt, fbRet, guideVars, memoryVars, zeekVars, settingsVars>>

\* const indexPatterns = await comboBox.getOptionsList('filterIndexPatternsSelect')
GetOptionsList ==
    /\ fbPc = "gip.options"
    /\ \E options \in OptionTexts : fbLocal' = [fbLocal EXCEPT !.options = options]
    /\ fbLog' = Append(fbLog, Ev("getOptionsList", "", "filterIndexPatternsSelect", -1, ""))
    /\ fbPc' = "ens.exists"
    /\ UNCHANGED <<fbCall, fbStack, fbAttempt, fbRet, page, guideVars, memoryVars, zeekVars, settingsVars>>

\* const cancelSaveFilterModalButtonExists = await testSubjects.exists('cancelSaveFilter')
ExistsCancelSaveFilter ==
    /\ fbPc = "ens.exists"
    /\ LET exists == page.editor # "closed"
       IN /\ fbLocal' = [fbLocal EXCEPT !.exists = exists]
          /\ fbLog' = Append(fbLog, Ev("exists", "", "cancelSaveFilter", -1,
                                       IF exists THEN "true" ELSE "false"))
          /\ fbPc' = IF exists THEN "ens.click" ELSE "ens.wait"
    /\ UNCHANGED <<fbCall, fbStack, fbAttempt, fbRet, page, guideVars, memoryVars, zeekVars, settingsVars>>

\* if (cancelSaveFilterModalButtonExists) await testSubjects.click('cancelSaveFilter')
ClickCancelSaveFilter ==
    /\ fbPc = "ens.click"
    /\ page.editor # "closed"
    /\ fbLog' = Append(fbLog, Ev("click", "", "cancelSaveFilter", -1, ""))
    /\ page' = [page EXCEPT !.editor = "closing"]
    /\ fbPc' = "ens.wait"
    /\ UNCHANGED <<fbCall, fbStack, fbLocal, fbAttempt, fbRet, guideVars, memoryVars, zeekVars, settingsVars>>

\* WaitForDeleted that does not wait for the button to go away
WaitForDeleted_noWait ==
    /\ fbPc = "ens.wait"
    /\ fbLog' = Append(fbLog, Ev("waitForDeleted", "", "cancelSaveFilter", -1, "deleted"))
    /\ IF fbCall.method = "getIndexPatterns"
       THEN /\ fbPc' = "gip.return"
            /\ fbRet' = fbRet
       ELSE /\ fbPc' = "done"
            /\ fbRet' = RetValue(Undefined)
    /\ UNCHANGED <<fbCall, fbStack, fbLocal, fbAttempt, page, guideVars, memoryVars, zeekVars, settingsVars>>

\* await testSubjects.waitForDeleted('cancelSaveFilter'); ensureFieldEditorModalIsClosed returns
WaitForDeleted ==
    /\ fbPc = "ens.wait"
    /\ page.editor = "closed"
    /\ fbLog' = Append(fbLog, Ev("waitForDeleted", "", "cancelSaveFilter", -1, "deleted"))
    /\ IF fbCall.method = "getIndexPatterns"
       THEN /\ fbPc' = "gip.return"
            /\ fbRet' = fbRet
       ELSE /\ fbPc' = "done"
            /\ fbRet' = RetValue(Undefined)
    /\ UNCHANGED <<fbCall, fbStack, fbLocal, fbAttempt, page, guideVars, memoryVars, zeekVars, settingsVars>>

\* return indexPatterns.trim().split('\n').join(',')
ReturnIndexPatterns ==
    /\ fbPc = "gip.return"
    /\ fbRet' = RetValue([js |-> "string", v |-> Join(Split(Trim(fbLocal.options), "\n"), ",")])
    /\ fbPc' = "done"
    /\ UNCHANGED <<fbCall, fbStack, fbLocal, fbLog, fbAttempt, page, guideVars, memoryVars, zeekVars, settingsVars>>

\* Largest number of filters in the filter bar.
MaxFilters == 2

\* The visible texts of the filters in the bar.
FilterLabels == {"extension: jpg", "NOT bytes: 0 to 500"}

\* The pages whose filter bar holds filters.
FilterBarPages ==
    {[editor |-> "closed", pill |-> NoPill, filters |-> labels] :
        labels \in UNION {[1..n -> FilterLabels] : n \in 0..MaxFilters}}

\* getFilterCount()
CallGetFilterCount ==
    /\ fbPc = "idle"
    /\ \E pg \in FilterBarPages : Invoke([method |-> "getFilterCount"], "gfc.find", pg)

\* const filters = await testSubjects.findAll('~filter'); return filters.length
GetFilterCount ==
    /\ fbPc = "gfc.find"
    /\ fbLog' = Append(fbLog, Ev("findAll", "", "~filter", -1, ""))
    /\ fbRet' = RetValue(Num(Len(page.filters)))
    /\ fbPc' = "done"
    /\ UNCHANGED <<fbCall, fbStack, fbLocal, fbAttempt, page, guideVars, memoryVars, zeekVars, settingsVars>>

\* getFiltersLabel()
CallGetFiltersLabel ==
    /\ fbPc = "idle"
    /\ \E pg \in FilterBarPages : Invoke([method |-> "getFiltersLabel"], "gfl.find", pg)

\* const filters = await testSubjects.findAll('~filter'); filters.map(getVisibleText)
\* starts a read on every element found before any of them completes
FindAllFilters ==
    /\ fbPc = "gfl.find"
    /\ fbLog' = Append(fbLog, Ev("findAll", "", "~filter", -1, ""))
    /\ fbLocal' = [fbLocal EXCEPT !.inFlight = 1..Len(page.filters),
                                  !.texts = [k \in 1..Len(page.filters) |-> Undefined],
                                  !.order = <<>>]
    /\ fbPc' = "gfl.reads"
    /\ UNCHANGED <<fbCall, fbStack, fbAttempt, fbRet, page, guideVars, memoryVars, zeekVars, settingsVars>>

\* Fulfil that appends the text to the results read so far
Fulfil_push(texts, k, text) ==
    LET first == CHOOSE m \in 1..Len(texts) :
                     texts[m] = Undefined /\ \A j \in 1..(m - 1) : texts[j] # Undefined
    IN [texts EXCEPT ![first] = text]

\* Promise.all: the value of the k-th promise becomes the k-th element of the result
Fulfil(texts, k, text) == [texts EXCEPT ![k] = text]

\* one of the reads in flight completes: filter.getVisibleText() of element k
GetVisibleText ==
    /\ fbPc = "gfl.reads"
    /\ \E k \in fbLocal.inFlight :
          /\ fbLog' = Append(fbLog, Ev("getVisibleText", "", "~filter", k - 1, page.filters[k]))
          /\ fbLocal' = [fbLocal EXCEPT !.inFlight = @ \ {k},
                                        !.texts = Fulfil(@, k, Str(page.filters[k])),
                                        !.order = Append(@, k)]
    /\ UNCHANGED <<fbCall, fbPc, fbStack, fbAttempt, fbRet, page, guideVars, memoryVars, zeekVars, settingsVars>>

\* every read has completed: Promise.all resolves and the method returns
PromiseAll ==
    /\ fbPc = "gfl.reads"
    /\ fbLocal.inFlight = {}
    /\ fbRet' = RetValue(Arr([k \in 1..Len(fbLocal.texts) |-> fbLocal.texts[k].v]))
    /\ fbPc' = "done"
    /\ UNCHANGED <<fbCall, fbStack, fbLocal, fbLog, fbAttempt, page, guideVars, memoryVars, zeekVars, settingsVars>>

FilterInit == FilterIdle

FilterNext ==
    \/ CallNewAddFilterAndSelectDataView
    \/ CallAddFilterAndSelectDataView
    \/ CallAddFilter
    \/ CallHasFilter
    \/ CallEnsureFieldEditorModalIsClosed
    \/ CallGetIndexPatterns
    \/ OpenFilterBuilder
    \/ SelectDataView
    \/ CreateFilterCall
    \/ AddConditionalFilter
    \/ CreateFilterChild
    \/ CreateFilterReturn
    \/ PasteField
    \/ PasteOperator
    \/ PasteRangeStart
    \/ PasteRangeEnd
    \/ FindValueInput
    \/ PasteValue
    \/ PasteEnter
    \/ ClickSaveFilter
    \/ AwaitGlobalLoadingIndicatorHidden
    \/ EditorCloses
    \/ SetField
    \/ SetOperator
    \/ FindParams
    \/ SetParamsComboBox
    \/ TypeParamField
    \/ NextValue
    \/ ValuesDone
    \/ RetryBlock
    \/ MethodThrows
    \/ HasFilter
    \/ ClickAddFilter
    \/ GetOptionsList
    \/ ExistsCancelSaveFilter
    \/ ClickCancelSaveFilter
    \/ WaitForDeleted
    \/ ReturnIndexPatterns
    \/ CallGetFilterCount
    \/ GetFilterCount
    \/ CallGetFiltersLabel
    \/ FindAllFilters
    \/ GetVisibleText
    \/ PromiseAll
    \/ Settle

(***************************************************************************)
(* Settings: the console settings kept in browser storage.                 *)
(***************************************************************************)

\* Not-a-Number, a number that is no Num(n)
NaN == [js |-> "number", nan |-> TRUE]

\* a key that storage holds nothing under
Absent == [js |-> "absent"]

\* the autocomplete settings object
Autocomplete(fields, indices, templates) ==
    [js |-> "object", fields |-> fields, indices |-> indices, templates |-> templates]

DEFAULT_SETTINGS ==
    [fontSize |-> Num(14),
     polling |-> Bool(FALSE),
     pollInterval |-> Num(60000),
     tripleQuotes |-> Bool(TRUE),
     wrapMode |-> Bool(TRUE),
     autocomplete |-> Autocomplete(TRUE, TRUE, TRUE),
     historyDisabled |-> Bool(FALSE)]

SettingsKeys ==
    {"font_size", "wrap_mode", "triple_quotes", "autocomplete_settings",
     "console_polling", "disable_history", "poll_interval"}

\* storage.get(key, defaultValue): the stored value, the default when nothing is stored
StorageGet(store, key, defaultValue) ==
    IF store[key] = Absent THEN defaultValue ELSE store[key]

\* storage.set(key, value)
StorageSet(store, key, value) == [store EXCEPT ![key] = value]

getFontSize(store) == StorageGet(store, "font_size", DEFAULT_SETTINGS.fontSize)

setFontSize(store, size) == StorageSet(store, "font_size", size)

getWrapMode(store) == StorageGet(store, "wrap_mode", DEFAULT_SETTINGS.wrapMode)

setWrapMode(store, mode) == StorageSet(store, "wrap_mode", mode)

setTripleQuotes(store, tripleQuotes) == StorageSet(store, "triple_quotes", tripleQuotes)

\* getTripleQuotes reading the key of the wrap mode
getTripleQuotes_wrapModeKey(store) == StorageGet(store, "wrap_mode", DEFAULT_SETTINGS.tripleQuotes)

getTripleQuotes(store) == StorageGet(store, "triple_quotes", DEFAULT_SETTINGS.tripleQuotes)

getAutocomplete(store) == StorageGet(store, "autocomplete_settings", DEFAULT_SETTINGS.autocomplete)

setAutocomplete(store, settings) == StorageSet(store, "autocomplete_settings", settings)

getPolling(store) == StorageGet(store, "console_polling", DEFAULT_SETTINGS.polling)

setPolling(store, polling) == StorageSet(store, "console_polling", polling)

setHistoryDisabled(store, disable) == StorageSet(store, "disable_history", disable)

getHistoryDisabled(store) == StorageGet(store, "disable_history", DEFAULT_SETTINGS.historyDisabled)

setPollInterval(store, interval) == StorageSet(store, "poll_interval", interval)

getPollInterval(store) == StorageGet(store, "poll_interval", DEFAULT_SETTINGS.pollInterval)

RECURSIVE DigitChars(_)
\* the decimal digits of a non-negative integer, one character each
DigitChars(n) ==
    IF n < 10 THEN <<Digits[n + 1]>> ELSE Append(DigitChars(n \div 10), Digits[(n % 10) + 1])

\* String(x) of a number, as characters
NumberChars(x) ==
    IF x = NaN THEN <<"N", "a", "N">>
    ELSE IF x.v < 0 THEN <<"-">> \o DigitChars(0 - x.v)
    ELSE DigitChars(x.v)

IsDigit(c) == \E d \in 1..10 : Digits[d] = c

RECURSIVE LeadingDigits(_)
\* the longest prefix of digits
LeadingDigits(chars) ==
    IF chars = <<>> \/ ~IsDigit(Head(chars)) THEN <<>>
    ELSE <<Head(chars)>> \o LeadingDigits(Tail(chars))

RECURSIVE DigitsValue(_)
\* the number a sequence of digits denotes
DigitsValue(digits) ==
    IF digits = <<>> THEN 0
    ELSE 10 * DigitsValue(SubSeq(digits, 1, Len(digits) - 1))
         + ((CHOOSE d \in 1..10 : Digits[d] = digits[Len(digits)]) - 1)

\* parseFloat that does not read a sign
parseFloat_unsigned(x) ==
    LET digits == LeadingDigits(NumberChars(x))
    IN IF digits = <<>> THEN NaN ELSE Num(DigitsValue(digits))

\* parseFloat(x): x is converted to a string, and the longest prefix of it that
\* is a decimal literal is the result, NaN when there is none
parseFloat(x) ==
    LET chars == NumberChars(x)
        signed == chars # <<>> /\ chars[1] \in {"-", "+"}
        digits == LeadingDigits(IF signed THEN Tail(chars) ELSE chars)
    IN IF digits = <<>> THEN NaN
       ELSE IF signed /\ chars[1] = "-" THEN Num(0 - DigitsValue(digits))
       ELSE Num(DigitsValue(digits))

\* Boolean(x) of a boolean
BooleanOf(x) == Bool(x.v = TRUE)

\* Settings.toJSON
toJSON(store) ==
    [autocomplete |-> getAutocomplete(store),
     wrapMode |-> getWrapMode(store),
     tripleQuotes |-> getTripleQuotes(store),
     fontSize |-> parseFloat(getFontSize(store)),
     polling |-> BooleanOf(getPolling(store)),
     historyDisabled |-> BooleanOf(getHistoryDisabled(store)),
     pollInterval |-> getPollInterval(store)]

\* Settings.updateSettings
updateSettings(store, s) ==
    LET s1 == setFontSize(store, s.fontSize)
        s2 == setWrapMode(s1, s.wrapMode)
        s3 == setTripleQuotes(s2, s.tripleQuotes)
        s4 == setAutocomplete(s3, s.autocomplete)
        s5 == setPolling(s4, s.polling)
        s6 == setHistoryDisabled(s5, s.historyDisabled)
    IN setPollInterval(s6, s.pollInterval)

\* The values the callers pass to the setters.
FontSizes == {Num(14), Num(-2), Num(120)}
PollIntervals == {Num(60000), Num(0)}
Booleans == {Bool(TRUE), Bool(FALSE)}
AutocompleteSettings == {Autocomplete(TRUE, TRUE, TRUE), Autocomplete(FALSE, TRUE, FALSE)}

\* the flags wrapMode, tripleQuotes, polling, historyDisabled that callers pass together
SettingsFlags ==
    {<<TRUE, TRUE, FALSE, FALSE>>, <<FALSE, FALSE, TRUE, TRUE>>, <<TRUE, FALSE, TRUE, FALSE>>}

\* DevToolsSettings
DevToolsSettings ==
    {[fontSize |-> size, wrapMode |-> Bool(flags[1]), tripleQuotes |-> Bool(flags[2]),
      autocomplete |-> autocomplete, polling |-> Bool(flags[3]),
      historyDisabled |-> Bool(flags[4]), pollInterval |-> interval] :
        size \in FontSizes, flags \in SettingsFlags, autocomplete \in AutocompleteSettings,
        interval \in PollIntervals}

\* a call of a Settings method: the storage it leaves, what it returns, and the
\* keys it was asked to set
SettingsCall(method, arg, store, value, sets) ==
    /\ storage' = store
    /\ settingsCall' = [method |-> method, arg |-> arg, value |-> value]
    /\ lastSet' = [k \in SettingsKeys |-> IF k \in DOMAIN sets THEN sets[k] ELSE lastSet[k]]
    /\ UNCHANGED <<guideVars, memoryVars, zeekVars, filterVars>>

\* a getter: storage is left alone
SettingsGet(method, value) == SettingsCall(method, Undefined, storage, value, <<>>)

SettingsIdle ==
    /\ storage = [k \in SettingsKeys |-> Absent]
    /\ settingsCall = [method |-> "none", arg |-> Undefined, value |-> Undefined]
    /\ lastSet = [k \in SettingsKeys |-> Absent]

SettingsInit == SettingsIdle

SettingsNext ==
    \/ SettingsGet("getFontSize", getFontSize(storage))
    \/ \E size \in FontSizes :
          SettingsCall("setFontSize", size, setFontSize(storage, size), Bool(TRUE),
                       "font_size" :> size)
    \/ SettingsGet("getWrapMode", getWrapMode(storage))
    \/ \E mode \in Booleans :
          SettingsCall("setWrapMode", mode, setWrapMode(storage, mode), Bool(TRUE),
                       "wrap_mode" :> mode)
    \/ \E tripleQuotes \in Booleans :
          SettingsCall("setTripleQuotes", tripleQuotes, setTripleQuotes(storage, tripleQuotes),
                       Bool(TRUE), "triple_quotes" :> tripleQuotes)
    \/ SettingsGet("getTripleQuotes", getTripleQuotes(storage))
    \/ SettingsGet("getAutocomplete", getAutocomplete(storage))
    \/ \E settings \in AutocompleteSettings :
          SettingsCall("setAutocomplete", settings, setAutocomplete(storage, settings),
                       Bool(TRUE), "autocomplete_settings" :> settings)
    \/ SettingsGet("getPolling", getPolling(storage))
    \/ \E polling \in Booleans :
          SettingsCall("setPolling", polling, setPolling(storage, polling), Bool(TRUE),
                       "console_polling" :> polling)
    \/ \E disable \in Booleans :
          SettingsCall("setHistoryDisabled", disable, setHistoryDisabled(storage, disable),
                       Bool(TRUE), "disable_history" :> disable)
    \/ SettingsGet("getHistoryDisabled", getHistoryDisabled(storage))
    \/ \E interval \in PollIntervals :
          SettingsCall("setPollInterval", interval, setPollInterval(storage, interval),
                       Undefined, "poll_interval" :> interval)
    \/ SettingsGet("getPollInterval", getPollInterval(storage))
    \/ SettingsGet("toJSON", toJSON(storage))
    \/ \E s \in DevToolsSettings :
          SettingsCall("updateSettings", s, updateSettings(storage, s), Undefined,
                       [font_size |-> s.fontSize, wrap_mode |-> s.wrapMode,
                        triple_quotes |-> s.tripleQuotes,
                        autocomplete_settings |-> s.autocomplete,
                        console_polling |-> s.polling,
                        disable_history |-> s.historyDisabled,
                        poll_interval |-> s.pollInterval])

(***************************************************************************)
(* The specifications, one per fragment.                                   *)
(***************************************************************************)

\* the FilterBarService page object driven by a functional test
Init == GuideIdle /\ MemoryIdle /\ ZeekIdle /\ FilterInit /\ SettingsIdle
Next == FilterNext
Spec == Init /\ [][Next]_vars

\* termination of the page object's methods: every step of a method in flight
\* is eventually taken (the test runner's event loop runs every continuation)
FairSpec == Spec /\ WF_vars(Next)

\* the guided-onboarding integration test against the server
InitGuide == GuideInit /\ MemoryIdle /\ ZeekIdle /\ FilterIdle /\ SettingsIdle
NextGuide == GuideNext
SpecGuide == InitGuide /\ [][NextGuide]_vars

\* the Memory visualization and its callers
InitMemory == GuideIdle /\ MemoryInit /\ ZeekIdle /\ FilterIdle /\ SettingsIdle
NextMemory == MemoryNext
SpecMemory == InitMemory /\ [][NextMemory]_vars

\* the ZeekSignature renderer
InitZeek == GuideIdle /\ MemoryIdle /\ ZeekInit /\ FilterIdle /\ SettingsIdle
NextZeek == ZeekNext
SpecZeek == InitZeek /\ [][NextZeek]_vars

\* the Settings object and its callers
InitSettings == GuideIdle /\ MemoryIdle /\ ZeekIdle /\ FilterIdle /\ SettingsInit
NextSettings == SettingsNext
SpecSettings == InitSettings /\ [][NextSettings]_vars

(***************************************************************************)
(* Properties of the guided-onboarding endpoint (SpecGuide).               *)
(***************************************************************************)

\* the guides the test has in the store: the latest create of every guide id
\* created since the last clean
CreatedGuides == {creates[g][Len(creates[g])] : g \in {h \in GuideIds : creates[h] # <<>>}}

GuideObjects == {o \in savedObjects : o.type = guidedSetupSavedObjectsType}

StateEntries == {response.body.state[i] : i \in 1..Len(response.body.state)}

\* C1: GET /api/guided_onboarding/state without a query parameter answers 200
\* with a state array that has exactly one entry for every stored guide, equal
\* to the attributes stored for it by its latest create, and no other entry.
C1_GetStateReturnsEveryStoredGuide ==
    (lastOp = "get" /\ request.active = "none") =>
        /\ response.status = 200
        /\ StateEntries = CreatedGuides
        /\ StateEntries = {o.attributes : o \in GuideObjects}
        /\ Len(response.body.state) = Cardinality(CreatedGuides)

\* C1 witness: two guides are stored, one of them not active, and GET returned both
C1_Witness ==
    /\ lastOp = "get"
    /\ request.active = "none"
    /\ Len(response.body.state) = 2
    /\ \E i \in 1..2 : ~response.body.state[i].isActive

\* C2: with active=true the answer is 200 and the state array contains every
\* stored guide whose isActive is true and no stored guide whose isActive is false.
C2_ActiveTrueReturnsActiveGuides ==
    (lastOp = "get" /\ request.active = "true") =>
        /\ response.status = 200
        /\ \A g \in CreatedGuides : g.isActive => g \in StateEntries
        /\ \A g \in CreatedGuides :
              ~g.isActive => \A e \in StateEntries : e.guideId # g.guideId
        /\ \A o \in GuideObjects : o.attributes \in StateEntries <=> o.attributes.isActive

\* C2 witness: an active and an inactive guide are stored and only the active one is returned
C2_Witness ==
    /\ lastOp = "get"
    /\ request.active = "true"
    /\ Cardinality(CreatedGuides) = 2
    /\ Len(response.body.state) = 1
    /\ \E g \in CreatedGuides : ~g.isActive

\* C3: when the store holds no guide (initially, or after the afterEach clean
\* that follows guide creations), GET answers 200 with exactly { state: [] }.
C3_EmptyStoreReturnsEmptyState ==
    (lastOp = "get" /\ request.active = "none" /\ CreatedGuides = {}) =>
        response = [status |-> 200, body |-> [state |-> <<>>]]

\* C3 witness: guides were created and cleaned, and the GET after the clean returned []
C3_Witness ==
    /\ lastOp = "get"
    /\ request.active = "none"
    /\ cleaned
    /\ CreatedGuides = {}
    /\ response.body.state = <<>>

\* C4: guide records are keyed by guideId: the store holds at most one record
\* per guideId, that record carries the attributes of the latest create for the
\* guideId, and the state array of GET never has two entries with one guideId.
C4_GuidesKeyedByGuideId ==
    /\ \A o1, o2 \in GuideObjects : o1.attributes.guideId = o2.attributes.guideId => o1 = o2
    /\ \A g \in CreatedGuides : \E o \in GuideObjects : o.attributes = g
    /\ \A o \in GuideObjects : o.attributes \in CreatedGuides
    /\ lastOp = "get" =>
          \A i, j \in 1..Len(response.body.state) :
              response.body.state[i].guideId = response.body.state[j].guideId => i = j

\* C4 witness: a guide id was created twice with different attributes, another
\* one once, and GET returned both guides
C4_Witness ==
    /\ lastOp = "get"
    /\ Len(response.body.state) = 2
    /\ \E g \in GuideIds : Len(creates[g]) = 2 /\ creates[g][1] # creates[g][2]

(***************************************************************************)
(* Properties of the Memory visualization (SpecMemory).                    *)
(***************************************************************************)

\* C5: getLayers throws Error('Error generating the data layer for the chart')
\* and returns nothing whenever insertOrReplaceFormulaColumn returns no layer
\* (undefined or null); whenever a layer is returned, getLayers returns a
\* record with exactly one key, DEFAULT_LAYER_ID, mapped to that layer.
C5_GetLayersThrowsWithoutDataLayer ==
    memCall.method = "getLayers" =>
        IF memCall.formulaResult = Undefined \/ memCall.formulaResult = Null
        THEN /\ memCall.threw
             /\ memCall.error = "Error generating the data layer for the chart"
             /\ memCall.value = Undefined
        ELSE /\ ~memCall.threw
             /\ DOMAIN memCall.value = {DEFAULT_LAYER_ID}
             /\ memCall.value[DEFAULT_LAYER_ID] = memCall.formulaResult

\* C5 witness: the formula API returned null and getLayers threw
C5_Witness ==
    /\ memCall.method = "getLayers"
    /\ memCall.formulaResult = Null
    /\ memCall.threw

(***************************************************************************)
(* Properties of the Zeek connection-state lookup (SpecZeek).              *)
(***************************************************************************)

\* C7: the lookup is consistent for every input: null or undefined give null
\* from both functions; one of the 13 dictionary codes gives its description
\* from extractStateValue and '<state> <description>' from extractStateLink;
\* any other string gives null from extractStateValue and the state unchanged
\* from extractStateLink.
C7_StateLookupConsistent ==
    zeekPc = "rendered" =>
        IF zeekState = Null \/ zeekState = Undefined
        THEN stateLink = Null /\ stateValue = Null
        ELSE IF zeekState.v \in ZeekCodes
        THEN /\ stateValue = Str("i18n." \o zeekState.v)
             /\ stateLink = Str(zeekState.v \o " " \o "i18n." \o zeekState.v)
        ELSE /\ stateValue = Null
             /\ stateLink = zeekState

(***************************************************************************)
(* Properties of FilterBarService (Spec, FairSpec).                        *)
(***************************************************************************)

IsPrefix(a, b) == Len(a) <= Len(b) /\ \A k \in 1..Len(a) : a[k] = b[k]

ReturnedNormally == fbPc = "done" /\ ~fbRet.threw

RECURSIVE DotJoin(_)
\* the child indices from the root, each preceded by a dot
DotJoin(indices) ==
    IF indices = <<>> THEN ""
    ELSE "." \o Digits[Head(indices) + 1] \o DotJoin(Tail(indices))

RECURSIVE LeavesDepthFirst(_, _), LeavesOfChildren(_, _, _)
\* the leaves of a filter tree depth-first, left to right, each with the form
\* path made of '0' and the dot-joined child indices that lead to it
LeavesDepthFirst(filter, indices) ==
    IF "filters" \in DOMAIN filter
    THEN LeavesOfChildren(filter.filters, indices, 1)
    ELSE <<[path |-> "0" \o DotJoin(indices), field |-> filter.field, operation |-> filter.operation]>>

LeavesOfChildren(children, indices, k) ==
    IF k > Len(children) THEN <<>>
    ELSE LeavesDepthFirst(children[k], Append(indices, k - 1))
         \o LeavesOfChildren(children, indices, k + 1)

\* the forms whose field has been set, in the order of the log
FieldFills(log) ==
    LET es == SelectSeq(log, LAMBDA e : e.act = "setElement" /\ e.subj = "filterFieldSuggestionList")
    IN [k \in 1..Len(es) |-> [path |-> es[k].form, field |-> es[k].text]]

\* the forms whose operator has been set, in the order of the log
OperatorFills(log) ==
    LET es == SelectSeq(log, LAMBDA e : e.act = "setElement" /\ e.subj = "filterOperatorList")
    IN [k \in 1..Len(es) |-> [path |-> es[k].form, operation |-> es[k].text]]

InCreateFilter ==
    fbPc \in {"cf.call", "cf.loop", "paste.field", "paste.operator", "paste.start",
              "paste.end", "paste.params", "paste.value", "paste.enter"}

CreateFilterReturned ==
    /\ fbCall.method = "newAddFilterAndSelectDataView"
    /\ fbPc \in {"save", "loading"} \/ ReturnedNormally

C6_FillsEveryLeafOnce ==
    fbCall.method = "newAddFilterAndSelectDataView" =>
        LET leaves == LeavesDepthFirst(fbCall.filter, <<>>)
            fields == [k \in 1..Len(leaves) |-> [path |-> leaves[k].path, field |-> leaves[k].field]]
            operators == [k \in 1..Len(leaves) |->
                             [path |-> leaves[k].path, operation |-> leaves[k].operation]]
        IN /\ IsPrefix(FieldFills(fbLog), fields)
           /\ IsPrefix(OperatorFills(fbLog), operators)
           /\ Len(OperatorFills(fbLog)) <= Len(FieldFills(fbLog))
           /\ CreateFilterReturned => FieldFills(fbLog) = fields /\ OperatorFills(fbLog) = operators

\* C6: createFilter, for every finite filter tree, terminates (it returns or
\* rejects), and when it returns it has filled the form of every leaf exactly
\* once and none for a boolean node, the leaves depth-first left to right, each
\* at the form path made of '0' followed by the dot-joined child indices from
\* the root to the leaf (a lone leaf at '0'); while it runs, the forms filled so
\* far are a prefix of that list.
C6_CreateFilterFillsLeavesDepthFirst ==
    /\ []C6_FillsEveryLeafOnce
    /\ InCreateFilter ~> ~InCreateFilter

\* C6 witness: createFilter has returned for a tree whose second leaf sits two
\* levels down, at '0.0.1'
C6_Witness ==
    /\ CreateFilterReturned
    /\ fbPc = "save"
    /\ Len(FieldFills(fbLog)) = 2
    /\ FieldFills(fbLog)[2].path = "0.0.1"

\* the value entries of addFilter's log: the index of the form element and the text
Entered(log) ==
    LET es == SelectSeq(log, LAMBDA e :
                  \/ e.act = "setElement" /\ e.subj = "filterParamsComboBox"
                  \/ e.act = "type" /\ e.subj = "filterParams input" /\ e.text # Keys.TAB)
    IN [k \in 1..Len(es) |-> <<es[k].idx, es[k].text>>]

RECURSIVE ExpectedEntries(_, _)
\* every element of every value argument, in order, with the 0-based position
\* of its argument among the values
ExpectedEntries(values, k) ==
    IF k > Len(values) THEN <<>>
    ELSE LET arg == values[k]
             elements == IF arg.js = "array" THEN arg.v ELSE <<arg.v>>
         IN [m \in 1..Len(elements) |-> <<k - 1, elements[m]>>] \o ExpectedEntries(values, k + 1)

SaveClicked == \E k \in 1..Len(fbLog) : fbLog[k].subj = "saveFilter"

\* C8 as stated: addFilter enters the i-th value argument only into the i-th
\* value input, every element of an array into that same input, never selects a
\* data view, and clicks saveFilter only after all values have been entered.
C8_SaveOnlyAfterAllValuesEntered ==
    fbCall.method = "addFilter" =>
        /\ IsPrefix(Entered(fbLog), ExpectedEntries(fbCall.values, 1))
        /\ \A k \in 1..Len(fbLog) : fbLog[k].subj # "filterIndexPatternsSelect"
        /\ SaveClicked => Entered(fbLog) = ExpectedEntries(fbCall.values, 1)

\* C8 amended: addFilter enters the i-th value argument only into the i-th
\* value control of the form (the i-th params combo box when the form has any,
\* else the i-th input), every element of an array into that same control, and
\* never selects a data view; when the form has a combo box or an input it
\* clicks saveFilter only after all values have been entered, and when it has
\* neither it enters no value and still clicks saveFilter.
C8_SaveAfterValuesTheFormTakes ==
    fbCall.method = "addFilter" =>
        /\ IsPrefix(Entered(fbLog), ExpectedEntries(fbCall.values, 1))
        /\ \A k \in 1..Len(fbLog) : fbLog[k].subj # "filterIndexPatternsSelect"
        /\ SaveClicked =>
              IF fbLocal.nCombo > 0 \/ fbLocal.nInputs > 0
              THEN Entered(fbLog) = ExpectedEntries(fbCall.values, 1)
              ELSE Entered(fbLog) = <<>>

\* C8 witness: two value arguments, the first an array of two elements, have
\* been entered into elements 0, 0 and 1 and saveFilter was clicked
C8_Witness ==
    /\ fbCall.method = "addFilter"
    /\ SaveClicked
    /\ Len(fbCall.values) = 2
    /\ Len(Entered(fbLog)) = 3
    /\ Entered(fbLog)[2][1] = 0
    /\ Entered(fbLog)[3][1] = 1

\* how often a word occurs in a selector
Occurrences(classes, word) == Cardinality({k \in 1..Len(classes) : classes[k] = Str(word)})

\* C9: hasFilter queries a single test-subject selector made of 'filter',
\* exactly one of 'filter-enabled'/'filter-disabled', exactly one of
\* 'filter-pinned'/'filter-unpinned', 'filter-key-<key>' only when key is not
\* empty, 'filter-value-<value>' only when value is not empty, and
\* 'filter-negated' only when negated is true; with the defaults it looks for
\* an enabled, unpinned filter, and hidden elements count as existing.
C9_HasFilterSelector ==
    (fbCall.method = "hasFilter" /\ fbPc = "done") =>
        /\ Len(fbLog) = 1
        /\ fbLog[1].act = "exists"
        /\ LET classes == fbLog[1].classes
               enabled == fbCall.enabled = Undefined \/ fbCall.enabled = Bool(TRUE)
               pinned == fbCall.pinned = Bool(TRUE)
               negated == fbCall.negated = Bool(TRUE)
           IN /\ Occurrences(classes, "filter") = 1
              /\ Occurrences(classes, "filter-enabled") = (IF enabled THEN 1 ELSE 0)
              /\ Occurrences(classes, "filter-disabled") = (IF enabled THEN 0 ELSE 1)
              /\ Occurrences(classes, "filter-pinned") = (IF pinned THEN 1 ELSE 0)
              /\ Occurrences(classes, "filter-unpinned") = (IF pinned THEN 0 ELSE 1)
              /\ Occurrences(classes, "filter-negated") = (IF negated THEN 1 ELSE 0)
              /\ Occurrences(classes, "filter-key-" \o fbCall.key) = (IF fbCall.key # "" THEN 1 ELSE 0)
              /\ Occurrences(classes, "filter-value-" \o fbCall.value)
                    = (IF fbCall.value # "" THEN 1 ELSE 0)
              /\ Len(classes) = 3 + (IF negated THEN 1 ELSE 0) + (IF fbCall.key # "" THEN 1 ELSE 0)
                                  + (IF fbCall.value # "" THEN 1 ELSE 0)
              /\ fbLog[1].allowHidden
              /\ (page.pill.present /\ page.pill.classes = classes) => fbRet.value = Bool(TRUE)

\* C9 witness: hasFilter with the defaults and an empty value found a hidden,
\* enabled, unpinned filter of the key
C9_Witness ==
    /\ fbCall.method = "hasFilter"
    /\ fbPc = "done"
    /\ fbCall.enabled = Undefined /\ fbCall.pinned = Undefined /\ fbCall.negated = Undefined
    /\ fbCall.key = "extension" /\ fbCall.value = ""
    /\ page.pill.present /\ page.pill.hidden
    /\ fbRet.value = Bool(TRUE)

\* the text with leading and trailing whitespace removed and every newline
\* replaced by a comma
IsCommaJoined(result, options) ==
    \E a, b \in 0..Len(options) :
        /\ a + b <= Len(options)
        /\ \A k \in 1..a : options[k] \in Whitespace
        /\ \A k \in (Len(options) - b + 1)..Len(options) : options[k] \in Whitespace
        /\ LET core == SubSeq(options, a + 1, Len(options) - b)
           IN /\ core # <<>> => core[1] \notin Whitespace /\ core[Len(core)] \notin Whitespace
              /\ Len(result) = Len(core)
              /\ \A k \in 1..Len(core) : result[k] = (IF core[k] = "\n" THEN "," ELSE core[k])

IsEvent(e, act, subj) == e.act = act /\ e.subj = subj

\* C10: ensureFieldEditorModalIsClosed clicks 'cancelSaveFilter' only if the
\* button existed at the time of the check, and in both cases returns only
\* after 'cancelSaveFilter' has been observed deleted; getIndexPatterns opens
\* the editor with 'addFilter', reads the options, and always runs this close
\* step before returning the newline-separated options joined by commas.
C10_EditorClosedBeforeReturn ==
    fbCall.method \in {"ensureFieldEditorModalIsClosed", "getIndexPatterns"} =>
        /\ \A k \in 1..Len(fbLog) :
              IsEvent(fbLog[k], "click", "cancelSaveFilter") =>
                  /\ k > 1
                  /\ IsEvent(fbLog[k - 1], "exists", "cancelSaveFilter")
                  /\ fbLog[k - 1].text = "true"
        /\ \A k \in 1..Len(fbLog) :
              (IsEvent(fbLog[k], "exists", "cancelSaveFilter") /\ fbLog[k].text = "false") =>
                  \A m \in (k + 1)..Len(fbLog) : ~IsEvent(fbLog[m], "click", "cancelSaveFilter")
        /\ (ReturnedNormally \/ fbPc = "gip.return") =>
              /\ IsEvent(fbLog[Len(fbLog)], "waitForDeleted", "cancelSaveFilter")
              /\ page.editor = "closed"
              /\ \E k \in 1..Len(fbLog) : IsEvent(fbLog[k], "exists", "cancelSaveFilter")
        /\ (fbCall.method = "getIndexPatterns" /\ ReturnedNormally) =>
              /\ IsEvent(fbLog[1], "click", "addFilter")
              /\ IsEvent(fbLog[2], "getOptionsList", "filterIndexPatternsSelect")
              /\ IsEvent(fbLog[3], "exists", "cancelSaveFilter")
              /\ IsCommaJoined(fbRet.value.v, fbLocal.options)

\* C10 witness: getIndexPatterns clicked cancel, saw the button deleted and
\* returned two options joined by a comma
C10_Witness ==
    /\ fbCall.method = "getIndexPatterns"
    /\ ReturnedNormally
    /\ \E k \in 1..Len(fbLog) : IsEvent(fbLog[k], "click", "cancelSaveFilter")
    /\ fbRet.value.v = <<"a", ",", "b">>

RECURSIVE ExpectedSteps(_, _), ExpectedStepsOfChildren(_, _, _)
\* the add-condition clicks and the leaf fills of a filter at a path, in order:
\* a node with n children has a click before each child but the last, by the
\* button of its condition, the first on the form at its own path and the one
\* for child i >= 1 on the form at '<path>.<i>'; a leaf is one fill of its form
ExpectedSteps(filter, path) ==
    IF "filters" \in DOMAIN filter
    THEN ExpectedStepsOfChildren(filter, path, 0)
    ELSE <<[step |-> "fill", form |-> path]>>

ExpectedStepsOfChildren(node, path, i) ==
    IF i >= Len(node.filters) THEN <<>>
    ELSE LET child == path \o "." \o Digits[i + 1]
             click == [step |-> IF node.condition = "OR" THEN "add-or-filter" ELSE "add-and-filter",
                       form |-> IF i = 0 THEN path ELSE child]
         IN (IF i < Len(node.filters) - 1 THEN <<click>> ELSE <<>>)
            \o ExpectedSteps(node.filters[i + 1], child)
            \o ExpectedStepsOfChildren(node, path, i + 1)

\* the add-condition clicks and the field fills of a log, in its order
ClicksAndFills(log) ==
    LET es == SelectSeq(log, LAMBDA e :
                  \/ e.act = "click" /\ e.subj \in {"add-or-filter", "add-and-filter"}
                  \/ e.act = "setElement" /\ e.subj = "filterFieldSuggestionList")
    IN [k \in 1..Len(es) |->
           [step |-> IF es[k].act = "click" THEN es[k].subj ELSE "fill", form |-> es[k].form]]

\* C12: for a node with n >= 1 children createFilter clicks the add-condition
\* button exactly n-1 times (none for the last child, none for a node with one
\* or no child), 'add-or-filter' for an OR node and 'add-and-filter' otherwise,
\* the first click on the form at the node's own path and the click for child
\* i >= 1 on the form at '<path>.<i>', each before the child at that index is
\* filled: the clicks and fills made so far are a prefix of that list, and the
\* whole list once createFilter has returned.
C12_AddConditionClicks ==
    fbCall.method = "newAddFilterAndSelectDataView" =>
        /\ IsPrefix(ClicksAndFills(fbLog), ExpectedSteps(fbCall.filter, "0"))
        /\ CreateFilterReturned => ClicksAndFills(fbLog) = ExpectedSteps(fbCall.filter, "0")

\* C12 witness: createFilter has returned for an OR node with three leaves: two
\* clicks of add-or-filter, on the forms '0' and '0.1', and three fills.
C12_Witness ==
    /\ CreateFilterReturned
    /\ fbPc = "save"
    /\ ClicksAndFills(fbLog) =
          <<[step |-> "add-or-filter", form |-> "0"], [step |-> "fill", form |-> "0.0"],
            [step |-> "add-or-filter", form |-> "0.1"], [step |-> "fill", form |-> "0.1"],
            [step |-> "fill", form |-> "0.2"]>>

\* what is typed for a bound of a range: its decimal digits, nothing when undefined
BoundText(bound) == IF bound = Undefined THEN "" ELSE NumberToString(bound.v)

RECURSIVE ElementsWithEnter(_)
\* every element of an array followed by ENTER
ElementsWithEnter(elements) ==
    IF elements = <<>> THEN <<>>
    ELSE <<[subj |-> "filterParams input", text |-> Head(elements)],
           [subj |-> "filterParams input", text |-> "Keys.ENTER"]>>
         \o ElementsWithEnter(Tail(elements))

\* what pasteFilterData enters into the form of a leaf: the field, the operator,
\* and then by the kind of the leaf's value
ExpectedPaste(leaf) ==
    <<[subj |-> "filterFieldSuggestionList", text |-> leaf.field],
      [subj |-> "filterOperatorList", text |-> leaf.operation]>>
    \o (IF "value" \notin DOMAIN leaf THEN <<>>
        ELSE IF leaf.value.js = "object"
        THEN <<[subj |-> "range-start", text |-> BoundText(leaf.value.from)],
               [subj |-> "range-end", text |-> BoundText(leaf.value.to)]>>
        ELSE IF leaf.value.js = "array" THEN ElementsWithEnter(leaf.value.v)
        ELSE <<[subj |-> "filterParams input", text |-> leaf.value.v]>>)

RECURSIVE ExpectedPastes(_, _), ExpectedPastesOfChildren(_, _, _)
\* the entries of every leaf of a filter, depth-first, each with the path of its form
ExpectedPastes(filter, path) ==
    IF "filters" \in DOMAIN filter
    THEN ExpectedPastesOfChildren(filter.filters, path, 1)
    ELSE LET es == ExpectedPaste(filter)
         IN [k \in 1..Len(es) |-> [form |-> path, subj |-> es[k].subj, text |-> es[k].text]]

ExpectedPastesOfChildren(children, path, k) ==
    IF k > Len(children) THEN <<>>
    ELSE ExpectedPastes(children[k], path \o "." \o Digits[k])
         \o ExpectedPastesOfChildren(children, path, k + 1)

\* the entries made into filter forms, in the order of the log
Pastes(log) ==
    LET es == SelectSeq(log, LAMBDA e : e.act \in {"setElement", "type"} /\ e.form # "")
    IN [k \in 1..Len(es) |-> [form |-> es[k].form, subj |-> es[k].subj, text |-> es[k].text]]

\* C13: pasteFilterData sets the field and then the operator of the leaf's form,
\* and then does exactly one of: nothing more for a leaf without a value; for a
\* range, types 'from' into range-start and 'to' into range-end, an undefined
\* bound as the empty string; for an array, types each element into the value
\* input followed by ENTER, in array order; for a single string, types it once
\* with no ENTER.
C13_PasteFilterDataByKind ==
    fbCall.method = "newAddFilterAndSelectDataView" =>
        /\ IsPrefix(Pastes(fbLog), ExpectedPastes(fbCall.filter, "0"))
        /\ CreateFilterReturned => Pastes(fbLog) = ExpectedPastes(fbCall.filter, "0")

\* C13 witness: a range from undefined to 0 has been pasted: '' into range-start
\* and '0' into range-end.
C13_Witness ==
    /\ CreateFilterReturned
    /\ fbPc = "save"
    /\ "value" \in DOMAIN fbCall.filter
    /\ fbCall.filter.value = [js |-> "object", from |-> Undefined, to |-> Num(0)]
    /\ Len(Pastes(fbLog)) = 4
    /\ Pastes(fbLog)[3] = [form |-> "0", subj |-> "range-start", text |-> ""]
    /\ Pastes(fbLog)[4] = [form |-> "0", subj |-> "range-end", text |-> "0"]

\* C14: newAddFilterAndSelectDataView opens the filter builder once; then, in a
\* block retried for up to twice the default try timeout, it selects the data
\* view only if dataViewTitle is non-empty, builds the whole filter tree, and
\* clicks 'saveFilter' only after createFilter has completed in that same
\* attempt; a failure re-runs the block from the data-view selection without
\* reopening the builder, and the global-loading wait happens only after an
\* attempt has succeeded.
C14_RetriedBlockOfNewAddFilter ==
    fbCall.method = "newAddFilterAndSelectDataView" =>
        LET select == Ev("set", "", "filterIndexPatternsSelect", -1,
                         IF Truthy(fbCall.dataViewTitle) THEN fbCall.dataViewTitle.v ELSE "")
            selects == {k \in 1..Len(fbLog) : fbLog[k].subj = "filterIndexPatternsSelect"}
            saves == {k \in 1..Len(fbLog) : fbLog[k].subj = "saveFilter"}
            waits == {k \in 1..Len(fbLog) : fbLog[k].act = "awaitGlobalLoadingIndicatorHidden"}
            built == /\ ClicksAndFills(fbLog) = ExpectedSteps(fbCall.filter, "0")
                     /\ Pastes(fbLog) = ExpectedPastes(fbCall.filter, "0")
        IN /\ fbLocal.opens <= 1
           /\ fbPc \in RetriedBlock \cup {"loading"} =>
                 fbLocal.opens = 1 /\ fbLocal.timeout = 2 * defaultTryTimeout
           /\ fbPc = "open" => fbAttempt = 1 /\ fbLog = <<>>
           /\ fbPc = "dataView" => fbLog = <<>>
           /\ IF Truthy(fbCall.dataViewTitle)
              THEN /\ fbPc \in (RetriedBlock \ {"dataView"}) \cup {"loading"} => fbLog # <<>>
                   /\ fbLog # <<>> => fbLog[1] = select /\ selects = {1}
              ELSE selects = {}
           /\ \A k \in saves : built /\ \A m \in 1..Len(fbLog) : m > k => m \in waits
           /\ Cardinality(saves) <= 1
           /\ \A k \in waits : k = Len(fbLog) /\ k - 1 \in saves
           /\ ReturnedNormally => waits # {}

\* C14 witness: the method has returned after its block failed once and ran
\* again: a second attempt, a selected data view, the builder opened once.
C14_Witness ==
    /\ fbCall.method = "newAddFilterAndSelectDataView"
    /\ ReturnedNormally
    /\ fbAttempt = 2
    /\ fbLocal.opens = 1
    /\ fbLog[1].subj = "filterIndexPatternsSelect"
    /\ isFilterNode(fbCall.filter)
    /\ Len(fbLog) > 4

HasReturned(method) == memResults[method].method = method /\ ~memResults[method].threw

\* C16: the parts of the Memory visualization refer to each other consistently:
\* the accessors of getVisualizationState ('y_memory_usage', 'x_date_histogram',
\* 'hosts_aggs_breakdown') are column ids that getLayers defines in the layer of
\* the same layer id DEFAULT_LAYER_ID, getReferences names that layer id, the
\* histogram column uses the data view's timeFieldName or '@timestamp' when it
\* has none, and getFilters has one enabled, non-negated exists filter for each
\* of system.memory.actual.used.bytes and system.memory.total.
C16_MemoryPartsConsistent ==
    /\ HasReturned("getVisualizationState") =>
          LET state == memResults["getVisualizationState"].value
          IN /\ Len(state.layers) = 1
             /\ state.layers[1].layerId = DEFAULT_LAYER_ID
             /\ state.layers[1].accessors = <<"y_memory_usage">>
             /\ state.layers[1].xAccessor = "x_date_histogram"
             /\ state.layers[1].splitAccessor = "hosts_aggs_breakdown"
             /\ HasReturned("getLayers") =>
                   LET layers == memResults["getLayers"].value
                       layer == state.layers[1]
                   IN /\ layer.layerId \in DOMAIN layers
                      /\ \A k \in 1..Len(layer.accessors) :
                            layer.accessors[k] \in DOMAIN layers[layer.layerId].columns
                      /\ layer.xAccessor \in DOMAIN layers[layer.layerId].columns
                      /\ layer.splitAccessor \in DOMAIN layers[layer.layerId].columns
    /\ HasReturned("getLayers") =>
          LET layers == memResults["getLayers"].value
          IN /\ DOMAIN layers = {DEFAULT_LAYER_ID}
             /\ layers[DEFAULT_LAYER_ID].columns["x_date_histogram"].sourceField =
                   IF memory.dataView.timeFieldName = Undefined THEN Str("@timestamp")
                   ELSE memory.dataView.timeFieldName
             /\ HasReturned("getReferences") =>
                   \E id \in DOMAIN layers :
                       memResults["getReferences"].value[1].name
                           = "indexpattern-datasource-layer-" \o id
    /\ HasReturned("getReferences") =>
          /\ Len(memResults["getReferences"].value) = 1
          /\ memResults["getReferences"].value[1].name
                = "indexpattern-datasource-layer-" \o DEFAULT_LAYER_ID
    /\ HasReturned("getFilters") =>
          LET filters == memResults["getFilters"].value
          IN /\ Len(filters) = 2
             /\ \A field \in {"system.memory.actual.used.bytes", "system.memory.total"} :
                   Cardinality({k \in 1..Len(filters) :
                                   /\ filters[k].query.exists.field = field
                                   /\ filters[k].meta.key = field
                                   /\ filters[k].meta.type = "exists"
                                   /\ ~filters[k].meta.disabled
                                   /\ ~filters[k].meta.negate}) = 1

\* C16 witness: all four parts have been read from a Memory object whose data
\* view has no timeFieldName, and the histogram column is on '@timestamp'.
C16_Witness ==
    /\ HasReturned("getLayers")
    /\ HasReturned("getVisualizationState")
    /\ HasReturned("getReferences")
    /\ HasReturned("getFilters")
    /\ memory.dataView.timeFieldName = Undefined
    /\ memResults["getLayers"].value[DEFAULT_LAYER_ID].columns["x_date_histogram"].sourceField
          = Str("@timestamp")

(***************************************************************************)
(* Properties of Settings (SpecSettings).                                  *)
(***************************************************************************)

\* the value the latest set of a key gave it, the given default when it was never set
LatestOr(key, defaultValue) == IF lastSet[key] = Absent THEN defaultValue ELSE lastSet[key]

\* C11: after any sequence of setter calls each of the seven getters returns the
\* value of the latest set of its setting, and the default (14, true, true,
\* {fields, indices, templates: true}, false, false, 60000) when the setting was
\* never set; toJSON on a storage with nothing set is DEFAULT_SETTINGS.
C11_GettersReturnLatestSetOrDefault ==
    /\ settingsCall.method = "getFontSize" => settingsCall.value = LatestOr("font_size", Num(14))
    /\ settingsCall.method = "getWrapMode" => settingsCall.value = LatestOr("wrap_mode", Bool(TRUE))
    /\ settingsCall.method = "getTripleQuotes"
          => settingsCall.value = LatestOr("triple_quotes", Bool(TRUE))
    /\ settingsCall.method = "getAutocomplete"
          => settingsCall.value = LatestOr("autocomplete_settings", Autocomplete(TRUE, TRUE, TRUE))
    /\ settingsCall.method = "getPolling"
          => settingsCall.value = LatestOr("console_polling", Bool(FALSE))
    /\ settingsCall.method = "getHistoryDisabled"
          => settingsCall.value = LatestOr("disable_history", Bool(FALSE))
    /\ settingsCall.method = "getPollInterval"
          => settingsCall.value = LatestOr("poll_interval", Num(60000))
    /\ (settingsCall.method = "toJSON" /\ \A k \in SettingsKeys : lastSet[k] = Absent)
          => settingsCall.value =
                [fontSize |-> Num(14), wrapMode |-> Bool(TRUE), tripleQuotes |-> Bool(TRUE),
                 autocomplete |-> Autocomplete(TRUE, TRUE, TRUE), polling |-> Bool(FALSE),
                 historyDisabled |-> Bool(FALSE), pollInterval |-> Num(60000)]

\* C11 witness: getTripleQuotes returns false, the latest of two sets, while the
\* wrap mode, set in between, is true and the font size was never set.
C11_Witness ==
    /\ settingsCall.method = "getTripleQuotes"
    /\ settingsCall.value = Bool(FALSE)
    /\ lastSet["triple_quotes"] = Bool(FALSE)
    /\ lastSet["wrap_mode"] = Bool(TRUE)
    /\ lastSet["font_size"] = Absent

\* C15: updateSettings(s) writes all seven keys, and toJSON() on the storage it
\* leaves is s in all seven fields, whatever was stored before.
C15_UpdateSettingsToJSONRoundTrip ==
    settingsCall.method = "updateSettings" =>
        /\ \A k \in SettingsKeys : storage[k] # Absent
        /\ storage["font_size"] = settingsCall.arg.fontSize
        /\ storage["wrap_mode"] = settingsCall.arg.wrapMode
        /\ storage["triple_quotes"] = settingsCall.arg.tripleQuotes
        /\ storage["autocomplete_settings"] = settingsCall.arg.autocomplete
        /\ storage["console_polling"] = settingsCall.arg.polling
        /\ storage["disable_history"] = settingsCall.arg.historyDisabled
        /\ storage["poll_interval"] = settingsCall.arg.pollInterval
        /\ toJSON(storage) = settingsCall.arg

\* C15 witness: updateSettings with a negative font size and no field at its
\* default has run, and toJSON gives the argument back.
C15_Witness ==
    /\ settingsCall.method = "updateSettings"
    /\ settingsCall.arg.fontSize = Num(-2)
    /\ settingsCall.arg.pollInterval = Num(0)
    /\ settingsCall.arg.polling = Bool(TRUE)
    /\ settingsCall.arg.wrapMode = Bool(FALSE)
    /\ toJSON(storage) = settingsCall.arg

====
